---- MODULE Spec2Model ----
(***************************************************************************)
(* Model of the Arc Flow -> PRODUCE transform pipeline                     *)
(* (src/src/transform/transformer.ts) and of the row collections the        *)
(* parsers (src/src/transform/csvParser.ts, parseMixExcel) hand to it, of  *)
(* the validator and the comparison (src/src/transform/validator.ts) and   *)
(* of the useTransformPipeline hook that drives them from the UI.          *)
(*                                                                         *)
(* Numbers that the source keeps as decimals (duration, days) are held as  *)
(* integers counting 1/Scale units, so that Math.round is a real rounding. *)
(* Text fields are strings; composite keys are built with \o exactly as    *)
(* the template literals of the source build them.  Codes are drawn from   *)
(* plain data codes: they contain no "|" and are not names of members of   *)
(* Object.prototype.                                                       *)
(***************************************************************************)
EXTENDS Integers, Sequences, FiniteSets, TLC

VARIABLES data, dict, result, pc, rules, merged, firstResult, calls,
          validation, sourceData, compareFile, comparison, detected,
          state, pending

vars == <<data, dict, result, pc, rules, merged, firstResult, calls,
          validation, sourceData, compareFile, comparison, detected,
          state, pending>>

\* The state of the validator and of the comparison (validator.ts).
validatorVars == <<validation, sourceData, compareFile, comparison, detected>>

----------------------------------------------------------------------------
(* Generic helpers                                                         *)

Max2(a, b) == IF a >= b THEN a ELSE b

Min2(a, b) == IF a <= b THEN a ELSE b

\* A JavaScript optional value: <<>> is undefined, <<v>> is the value v.
Undefined == <<>>

Some(v) == <<v>>

\* INITIAL_STEPS: the eight progress steps of a run, by status.
INITIAL_STEPS == [i \in 1..8 |-> "pending"]

\* The state useTransformPipeline starts with and reset() restores; null is
\* written Undefined.  transformDuration and lastRunTimestamp hold clock
\* readings and are left out.
initialState ==
  [activeStep |-> 0,
   uploadedFiles |-> <<>>,
   parsedData |-> Undefined,
   validationResult |-> Undefined,
   isTransforming |-> FALSE,
   transformSteps |-> INITIAL_STEPS,
   transformResult |-> Undefined]

\* Nothing validated, compared or detected yet.
validatorIdle ==
  /\ validation = <<>>
  /\ sourceData = <<>>
  /\ compareFile = [headers |-> <<>>, rows |-> <<>>]
  /\ comparison = <<>>
  /\ detected = <<>>

\* Array.prototype.sort with a numeric comparator on a set of numbers.
RECURSIVE SortedSeqOfSet(_)
SortedSeqOfSet(S) ==
  IF S = {} THEN <<>>
  ELSE LET m == CHOOSE x \in S : \A y \in S : x <= y
       IN <<m>> \o SortedSeqOfSet(S \ {m})

----------------------------------------------------------------------------
(* Fixed-point numbers and rounding                                        *)

\* Decimal inputs are integers counting 1/Scale.
Scale == 2

\* The merger's sentinel breakpoint, one past the last week.
Sentinel == 54

\* Variant: the sentinel week taken for the last week of the year.
LastWeekIsSentinel == Sentinel

\* The last week of the annual calendar.
LastWeek == 53

\* Math.round(n / d) for d > 0: floor(n/d + 1/2).
RoundDiv(n, d) == (2 * n + d) \div (2 * d)

\* daysToWeeks(days) = Math.round(days / 7), days counted in 1/Scale.
daysToWeeks(days) == RoundDiv(days, 7 * Scale)

\* parseSchemeCode(code).category is the second dash-delimited token of the
\* code; the scheme codes of the model are listed with their tokens.
SchemeTokens ==
  [c \in {"BN-A-G1-SP", "BN-B-G2-LSP", "ZZ", "BN-10INMUM-NSLN-SP"} |->
     CASE c = "BN-A-G1-SP" -> <<"BN", "A", "G1", "SP">>
       [] c = "BN-B-G2-LSP" -> <<"BN", "B", "G2", "LSP">>
       [] c = "ZZ" -> <<"ZZ">>
       [] c = "BN-10INMUM-NSLN-SP" -> <<"BN", "10INMUM", "NSLN", "SP">>]

\* Variant: the category is the first token.
parseSchemeCodeFirstToken(code) ==
  LET parts == SchemeTokens[code]
  IN [category |-> IF Len(parts) >= 1 THEN parts[1] ELSE "",
      timeProfile |-> IF Len(parts) >= 4 THEN parts[4] ELSE ""]

parseSchemeCode(code) ==
  LET parts == SchemeTokens[code]
  IN [category |-> IF Len(parts) >= 2 THEN parts[2] ELSE "",
      timeProfile |-> IF Len(parts) >= 4 THEN parts[4] ELSE ""]

----------------------------------------------------------------------------
(* SchemeRuleBuilder: buildSchemeDictionary                                *)

\* `${schemeCode}|${lineNo}|${phase}`
periodKey(schemeCode, lineNo, phase) ==
  schemeCode \o "|" \o lineNo \o "|" \o phase

\* linesByScheme.get(code): the lines of one scheme, in input order.
linesByScheme(lines, code) ==
  SelectSeq(lines, LAMBDA l : l.schemeCode = code)

\* periodsByKey.get(key) || []: the periods filed under one key, in input order.
periodsByKey(periods, key) ==
  SelectSeq(periods, LAMBDA p : periodKey(p.schemeCode, p.lineNo, p.phase) = key)

\* Insert p after every element whose periodNo is <= p.periodNo.
RECURSIVE insertByPeriodNo(_, _)
insertByPeriodNo(sorted, p) ==
  IF sorted = <<>> THEN <<p>>
  ELSE IF Head(sorted).periodNo <= p.periodNo
       THEN <<Head(sorted)>> \o insertByPeriodNo(Tail(sorted), p)
       ELSE <<p>> \o sorted

\* Variant: the periods are used in input order.
unsortedPeriods(periods) == periods

\* [...periods].sort((a, b) => a.periodNo - b.periodNo): a stable sort.
RECURSIVE sortedPeriods(_)
sortedPeriods(periods) ==
  IF periods = <<>> THEN <<>>
  ELSE insertByPeriodNo(sortedPeriods(SubSeq(periods, 1, Len(periods) - 1)),
                        periods[Len(periods)])

\* Variant: the line duration is taken for days.
fullYearRuleDurationAsDays(line) ==
  [startWeek |-> 1,
   endWeek |-> LastWeek,
   growWeeks |-> daysToWeeks(line.duration),
   phase |-> line.phase]

\* The rule of a line without period rows (full year).
fullYearRule(line) ==
  [startWeek |-> 1,
   endWeek |-> LastWeek,
   growWeeks |-> daysToWeeks(line.duration * 7),
   phase |-> line.phase]

\* The rules of a line with period rows, one per sorted period.
periodRules(sp) ==
  [i \in 1..Len(sp) |->
     [startWeek |-> sp[i].periodNo,
      endWeek |-> IF i < Len(sp) THEN sp[i + 1].periodNo - 1 ELSE LastWeek,
      growWeeks |-> daysToWeeks(sp[i].days),
      phase |-> sp[i].phase]]

\* The rules one line pushes.
lineRules(line, allPeriods) ==
  LET periods == periodsByKey(allPeriods,
                              periodKey(line.schemeCode, line.lineNo, line.phase))
  IN IF Len(periods) = 0
     THEN <<fullYearRule(line)>>
     ELSE periodRules(sortedPeriods(periods))

RECURSIVE schemeRules(_, _)
schemeRules(lines, allPeriods) ==
  IF lines = <<>> THEN <<>>
  ELSE lineRules(Head(lines), allPeriods) \o schemeRules(Tail(lines), allPeriods)

buildSchemeDictionary(d) ==
  [code \in {d.schemeLines[i].schemeCode : i \in 1..Len(d.schemeLines)} |->
     schemeRules(linesByScheme(d.schemeLines, code), d.schemeLinePeriods)]

----------------------------------------------------------------------------
(* IntervalMerger: mergeGrowAndSpace                                       *)

\* Variant: a rule contributes its start only, not the week after its end.
breakpointsOfStarts(rs) ==
  {rs[i].startWeek : i \in 1..Len(rs)} \cup {Sentinel}

\* The break points: every start, every end + 1, and the sentinel.
breakpointsOf(rs) ==
  {rs[i].startWeek : i \in 1..Len(rs)} \cup {rs[i].endWeek + 1 : i \in 1..Len(rs)}
    \cup {Sentinel}

\* segStart >= rule.startWeek && segEnd <= rule.endWeek
ruleContains(rule, segStart, segEnd) ==
  segStart >= rule.startWeek /\ segEnd <= rule.endWeek

\* Variant: any rule that contains the segment counts, whatever its phase.
coveringGrowWeeksAnyPhase(rs, segStart, segEnd) ==
  LET hits == {i \in 1..Len(rs) : ruleContains(rs[i], segStart, segEnd)}
  IN IF hits = {} THEN -1
     ELSE rs[CHOOSE i \in hits : \A j \in hits : i <= j].growWeeks

\* The growWeeks of the first GROW rule that contains the segment, else -1.
coveringGrowWeeks(rs, segStart, segEnd) ==
  LET hits == {i \in 1..Len(rs) :
                 rs[i].phase = "GROW" /\ ruleContains(rs[i], segStart, segEnd)}
  IN IF hits = {} THEN -1
     ELSE rs[CHOOSE i \in hits : \A j \in hits : i <= j].growWeeks

\* Variant: only GROW rules are left out of the sum, INVENTORY rules count.
extraWeeksFromWithInventory(rs, segStart, segEnd) ==
  LET sum[k \in 0..Len(rs)] ==
        IF k = 0 THEN 0
        ELSE sum[k - 1]
             + (IF rs[k].phase # "GROW" /\ ruleContains(rs[k], segStart, segEnd)
                THEN rs[k].growWeeks ELSE 0)
  IN sum[Len(rs)]

\* The sum of growWeeks over the contained rules of the extra phases.
RECURSIVE extraWeeksFrom(_, _, _)
extraWeeksFrom(rs, segStart, segEnd) ==
  IF rs = <<>> THEN 0
  ELSE (IF Head(rs).phase # "GROW" /\ Head(rs).phase # "INVENTORY"
           /\ ruleContains(Head(rs), segStart, segEnd)
        THEN Head(rs).growWeeks ELSE 0)
       + extraWeeksFrom(Tail(rs), segStart, segEnd)

\* One pass of the loop over sortedBPs, from index i (1-based) on.
RECURSIVE mergeFrom(_, _, _)
mergeFrom(rs, sortedBPs, i) ==
  IF i > Len(sortedBPs) - 1 THEN <<>>
  ELSE LET segStart == sortedBPs[i]
           segEnd == sortedBPs[i + 1] - 1
           growWeeks == coveringGrowWeeks(rs, segStart, segEnd)
       IN (IF segStart > segEnd \/ growWeeks = -1
           THEN <<>>
           ELSE <<[startWeek |-> segStart,
                   endWeek |-> segEnd,
                   growWeeks |-> growWeeks + extraWeeksFrom(rs, segStart, segEnd),
                   phase |-> "GROW"]>>)
          \o mergeFrom(rs, sortedBPs, i + 1)

mergeGrowAndSpace(rs) ==
  mergeFrom(rs, SortedSeqOfSet(breakpointsOf(rs)), 1)

----------------------------------------------------------------------------
(* CatalogDeriver: generateCatalogs                                        *)

\* let id = 1 of generateCatalogs
catalogIdStart == 1

RECURSIVE catalogLoop(_, _, _)
catalogLoop(schemes, catalogs, id) ==
  IF schemes = <<>> THEN catalogs
  ELSE LET scheme == Head(schemes)
           seenGenus == {catalogs[i].genus : i \in 1..Len(catalogs)}
       IN IF scheme.genusCode \notin seenGenus
          THEN catalogLoop(Tail(schemes),
                           Append(catalogs, [id |-> id,
                                             genus |-> scheme.genusCode,
                                             series |-> "",
                                             color |-> ""]),
                           id + 1)
          ELSE catalogLoop(Tail(schemes), catalogs, id)

generateCatalogs(d) == catalogLoop(d.schemes, <<>>, catalogIdStart)

----------------------------------------------------------------------------
(* RecipeGenerator: generateRecipes                                        *)

\* Variant: a counter kept outside the function, going on from the last call.
recipeIdStartCarried == Len(result.recipes) + 1

\* let id = 1 of generateRecipes
recipeIdStart == 1

\* Variant: the genus is looked up ignoring case.
genusCatalogMapIgnoringCase(catalogs, genus) ==
  LET hits == {i \in 1..Len(catalogs) :
                 \/ catalogs[i].genus = genus
                 \/ <<catalogs[i].genus, genus>> \in {<<"G1", "g1">>, <<"g1", "G1">>}}
  IN IF hits = {} THEN Undefined
     ELSE Some(catalogs[CHOOSE i \in hits : \A j \in hits : i >= j].id)

\* genusCatalogMap.get(genus): the id of the last catalog with that genus.
genusCatalogMap(catalogs, genus) ==
  LET hits == {i \in 1..Len(catalogs) : catalogs[i].genus = genus}
  IN IF hits = {} THEN Undefined
     ELSE Some(catalogs[CHOOSE i \in hits : \A j \in hits : i >= j].id)

\* schemeGenusMap.get(code) || '': the genus of the last scheme row with that code.
schemeGenusMap(schemes, code) ==
  LET hits == {i \in 1..Len(schemes) : schemes[i].code = code}
  IN IF hits = {} THEN ""
     ELSE schemes[CHOOSE i \in hits : \A j \in hits : i >= j].genusCode

\* Variant: the key leaves the location out.
recipeKeyWithoutLocation(locationCode, schemeCode, startWeek, endWeek) ==
  schemeCode \o "|" \o ToString(startWeek) \o "|" \o ToString(endWeek)

\* `${pref.locationCode}|${schemeCode}|${rule.startWeek}|${rule.endWeek}`
recipeKey(locationCode, schemeCode, startWeek, endWeek) ==
  locationCode \o "|" \o schemeCode \o "|" \o ToString(startWeek)
    \o "|" \o ToString(endWeek)

\* Variant: the dedup set is never consulted.
seenRecipesHasNever(seenRecipes, key) == FALSE

\* seenRecipes.has(recipeKey)
seenRecipesHas(seenRecipes, key) == key \in seenRecipes

\* Variant: the row is skipped without a warning.
warnNoRulesSilent(st, schemeCode) == st

\* warnings.push(`No rules found for scheme: ${schemeCode}`)
warnNoRules(st, schemeCode) ==
  [st EXCEPT !.warnings = Append(@, "No rules found for scheme: " \o schemeCode)]

\* The inner loop over the merged rules of one preference row; st is
\* [recipes, warnings, id, seenRecipes].
RECURSIVE segmentLoop(_, _, _, _, _)
segmentLoop(pref, genus, catalogId, mergedRules, st) ==
  IF mergedRules = <<>> THEN st
  ELSE LET rule == Head(mergedRules)
           key == recipeKey(pref.locationCode, pref.schemeCode,
                            rule.startWeek, rule.endWeek)
       IN IF seenRecipesHas(st.seenRecipes, key)
          THEN segmentLoop(pref, genus, catalogId, Tail(mergedRules), st)
          ELSE segmentLoop(pref, genus, catalogId, Tail(mergedRules),
                 [recipes |-> Append(st.recipes,
                    [id |-> st.id,
                     locationCode |-> pref.locationCode,
                     category |-> parseSchemeCode(pref.schemeCode).category,
                     schemeCode |-> pref.schemeCode,
                     genus |-> genus,
                     series |-> pref.productionItemNo,
                     color |-> pref.variantCode,
                     startWeek |-> rule.startWeek,
                     endWeek |-> rule.endWeek,
                     growWeeks |-> rule.growWeeks,
                     notes |-> pref.schemeCode,
                     catalogId |-> catalogId]),
                  warnings |-> st.warnings,
                  id |-> st.id + 1,
                  seenRecipes |-> st.seenRecipes \cup {key}])

\* The loop over the preference rows.
RECURSIVE prefLoop(_, _, _, _, _)
prefLoop(prefs, schemes, schemeDictionary, catalogs, st) ==
  IF prefs = <<>> THEN st
  ELSE LET pref == Head(prefs)
       IN IF pref.schemeCode \notin DOMAIN schemeDictionary
          THEN prefLoop(Tail(prefs), schemes, schemeDictionary, catalogs,
                        warnNoRules(st, pref.schemeCode))
          ELSE LET genus == schemeGenusMap(schemes, pref.schemeCode)
               IN prefLoop(Tail(prefs), schemes, schemeDictionary, catalogs,
                    segmentLoop(pref, genus, genusCatalogMap(catalogs, genus),
                                mergeGrowAndSpace(schemeDictionary[pref.schemeCode]),
                                st))

generateRecipes(d, schemeDictionary, catalogs) ==
  LET st == prefLoop(d.preferences, d.schemes, schemeDictionary, catalogs,
                     [recipes |-> <<>>, warnings |-> <<>>,
                      id |-> recipeIdStart, seenRecipes |-> {}])
  IN [recipes |-> st.recipes, warnings |-> st.warnings]

----------------------------------------------------------------------------
(* EventDeriver: generateEvents                                            *)

\* let id = 1 of generateEvents
eventIdStart == 1

\* recipe.startWeek > rule.endWeek || recipe.endWeek < rule.startWeek
noOverlap(recipe, rule) ==
  recipe.startWeek > rule.endWeek \/ recipe.endWeek < rule.startWeek

\* Variant: the overlap starts where the rule starts.
ovStartOfRule(recipe, rule) == rule.startWeek

ovStartOf(recipe, rule) == Max2(recipe.startWeek, rule.startWeek)

\* Variant: the overlap ends where the rule ends.
ovEndOfRule(recipe, rule) == rule.endWeek

ovEndOf(recipe, rule) == Min2(recipe.endWeek, rule.endWeek)

\* Variant: the lead time is looked up for a GROW rule as well.
triggerWeeksOfAnyPhase(rule, growRules, ovStart, ovEnd) ==
  LET hits == {i \in 1..Len(growRules) :
                 ovStart >= growRules[i].startWeek
                   /\ ovEnd <= growRules[i].endWeek}
  IN IF hits = {} THEN 0
     ELSE growRules[CHOOSE i \in hits : \A j \in hits : i <= j].growWeeks

\* triggerWeeks: 0 for a GROW rule, else the growWeeks of the first GROW rule
\* that contains the overlap, else 0.
triggerWeeksOf(rule, growRules, ovStart, ovEnd) ==
  IF rule.phase = "GROW" THEN 0
  ELSE LET hits == {i \in 1..Len(growRules) :
                      ovStart >= growRules[i].startWeek
                        /\ ovEnd <= growRules[i].endWeek}
       IN IF hits = {} THEN 0
          ELSE growRules[CHOOSE i \in hits : \A j \in hits : i <= j].growWeeks

\* The loop over the rules of one recipe; st is [events, id].
RECURSIVE eventRuleLoop(_, _, _, _)
eventRuleLoop(recipe, rs, growRules, st) ==
  IF rs = <<>> THEN st
  ELSE LET rule == Head(rs)
       IN IF noOverlap(recipe, rule)
          THEN eventRuleLoop(recipe, Tail(rs), growRules, st)
          ELSE LET ovStart == ovStartOf(recipe, rule)
                   ovEnd == ovEndOf(recipe, rule)
               IN eventRuleLoop(recipe, Tail(rs), growRules,
                    [events |-> Append(st.events,
                       [id |-> st.id,
                        recipeId |-> recipe.id,
                        locationCode |-> recipe.locationCode,
                        category |-> recipe.category,
                        schemeCode |-> recipe.schemeCode,
                        genus |-> recipe.genus,
                        series |-> recipe.series,
                        color |-> recipe.color,
                        phase |-> rule.phase,
                        startWeek |-> ovStart,
                        endWeek |-> ovEnd,
                        triggerWeeks |-> triggerWeeksOf(rule, growRules, ovStart, ovEnd),
                        durationWeeks |-> rule.growWeeks]),
                     id |-> st.id + 1])

RECURSIVE eventRecipeLoop(_, _, _)
eventRecipeLoop(recipes, schemeDictionary, st) ==
  IF recipes = <<>> THEN st
  ELSE LET recipe == Head(recipes)
       IN IF recipe.schemeCode \notin DOMAIN schemeDictionary
          THEN eventRecipeLoop(Tail(recipes), schemeDictionary, st)
          ELSE LET rs == schemeDictionary[recipe.schemeCode]
               IN eventRecipeLoop(Tail(recipes), schemeDictionary,
                    eventRuleLoop(recipe, rs,
                                  SelectSeq(rs, LAMBDA r : r.phase = "GROW"), st))

generateEvents(recipes, schemeDictionary) ==
  eventRecipeLoop(recipes, schemeDictionary,
                  [events |-> <<>>, id |-> eventIdStart]).events

----------------------------------------------------------------------------
(* SpecDeriver: generateSpecs                                              *)

\* let id = 1 of generateSpecs
specIdStart == 1

\* Math.round(Math.sqrt(q) * 100) for q counted in 1/Scale: the n with
\* n - 1/2 <= 100 * sqrt(q / Scale) < n + 1/2.
roundedSqrt100(q) ==
  CHOOSE n \in 0..(100 * (q \div Scale + 1)) :
    /\ (n = 0 \/ (2 * n - 1) * (2 * n - 1) * Scale <= 40000 * q)
    /\ 40000 * q < (2 * n + 1) * (2 * n + 1) * Scale

\* A map that keeps one entry per scheme instead of a list.
schemeQtyMapFirstLine(lines, code) ==
  SubSeq(linesByScheme(lines, code), 1, 1)

\* schemeQtyMap.get(code): phase and qtyPerArea of the lines of one scheme.
schemeQtyMap(lines, code) == linesByScheme(lines, code)

\* The loop over the lines of one recipe's scheme; st is [specs, id].
RECURSIVE specItemLoop(_, _, _)
specItemLoop(recipe, qtyData, st) ==
  IF qtyData = <<>> THEN st
  ELSE LET item == Head(qtyData)
       IN IF item.qtyPerArea > 0
          THEN specItemLoop(recipe, Tail(qtyData),
                 [specs |-> Append(st.specs,
                    [id |-> st.id,
                     recipeId |-> recipe.id,
                     spaceWidth |-> roundedSqrt100(item.qtyPerArea),
                     spaceLength |-> roundedSqrt100(item.qtyPerArea),
                     qtyPerArea |-> item.qtyPerArea,
                     phase |-> item.phase]),
                  id |-> st.id + 1])
          ELSE specItemLoop(recipe, Tail(qtyData), st)

RECURSIVE specRecipeLoop(_, _, _)
specRecipeLoop(recipes, lines, st) ==
  IF recipes = <<>> THEN st
  ELSE specRecipeLoop(Tail(recipes), lines,
         specItemLoop(Head(recipes),
                      schemeQtyMap(lines, Head(recipes).schemeCode), st))

generateSpecs(recipes, d) ==
  specRecipeLoop(recipes, d.schemeLines,
                 [specs |-> <<>>, id |-> specIdStart]).specs

----------------------------------------------------------------------------
(* MixBreakoutEngine: pickBestRecipe, generateMixes                        *)

\* let id = 1 of generateMixes
mixIdStart == 1

\* let bestScore = 9999
InitialBestScore == 9999

\* Variant: an equally narrow later recipe replaces the best one.
isNarrowerOrEqual(score, bestScore) == score <= bestScore

\* if (score < bestScore)
isNarrower(score, bestScore) == score < bestScore

\* st is [best, bestScore]; best is an optional recipe.
RECURSIVE pickLoop(_, _, _, _, _)
pickLoop(recipes, location, productionItem, week, st) ==
  IF recipes = <<>> THEN st.best
  ELSE LET recipe == Head(recipes)
           score == recipe.endWeek - recipe.startWeek
       IN IF \/ recipe.locationCode # location
             \/ recipe.series # productionItem
             \/ week < recipe.startWeek
             \/ week > recipe.endWeek
             \/ ~isNarrower(score, st.bestScore)
          THEN pickLoop(Tail(recipes), location, productionItem, week, st)
          ELSE pickLoop(Tail(recipes), location, productionItem, week,
                        [best |-> Some(recipe), bestScore |-> score])

\* Variant: the week is not looked at; the first recipe of the location and
\* item is taken.
pickBestRecipeAnyWeek(recipes, location, productionItem, week) ==
  LET hits == {k \in 1..Len(recipes) :
                 /\ recipes[k].locationCode = location
                 /\ recipes[k].series = productionItem}
  IN IF hits = {} THEN Undefined
     ELSE Some(recipes[CHOOSE k \in hits : \A j \in hits : k <= j])

pickBestRecipe(recipes, location, productionItem, week) ==
  pickLoop(recipes, location, productionItem, week,
           [best |-> Undefined, bestScore |-> InitialBestScore])

\* String.prototype.toLowerCase on the strings of the model.
toLowerCase(s) ==
  CASE s = "G1" -> "g1"
    [] s = "G2" -> "g2"
    [] s = "I1" -> "i1"
    [] s = "I2" -> "i2"
    [] s = "I9" -> "i9"
    [] s = "V1" -> "v1"
    [] s = "V2" -> "v2"
    [] s = "GROW" -> "grow"
    [] s = "SPACE" -> "space"
    [] s = "PHASE" -> "phase"
    [] s = "Recipe ID" -> "recipe id"
    [] s = "Space.Length" -> "space.length"
    [] s = "QtyPerArea" -> "qtyperarea"
    [] s = "Location.Code" -> "location.code"
    [] s = "Scheme Code" -> "scheme code"
    [] s = "Foo" -> "foo"
    [] s = "locationCode" -> "locationcode"
    [] s = "schemeCode" -> "schemecode"
    [] s = "startWeek" -> "startweek"
    [] s = "endWeek" -> "endweek"
    [] s = "growWeeks" -> "growweeks"
    [] s = "catalogId" -> "catalogid"
    [] s = "recipeId" -> "recipeid"
    [] s = "triggerWeeks" -> "triggerweeks"
    [] s = "durationWeeks" -> "durationweeks"
    [] s = "spaceWidth" -> "spacewidth"
    [] s = "spaceLength" -> "spacelength"
    [] s = "qtyPerArea" -> "qtyperarea"
    [] s = "mixPct" -> "mixpct"
    [] s = "commonItem" -> "commonitem"
    [] OTHER -> s

\* `${genus}|${series}|${color}`.toLowerCase()
variantKey(genus, series, color) ==
  toLowerCase(genus) \o "|" \o toLowerCase(series) \o "|" \o toLowerCase(color)

\* catalogByVariant.get(key): the id of the last catalog filed under the key.
catalogByVariant(catalogs, key) ==
  LET hits == {i \in 1..Len(catalogs) :
                 variantKey(catalogs[i].genus, catalogs[i].series,
                            catalogs[i].color) = key}
  IN IF hits = {} THEN Undefined
     ELSE Some(catalogs[CHOOSE i \in hits : \A j \in hits : i >= j].id)

\* An optional number is falsy when it is undefined or 0.
falsy(opt) == opt = Undefined \/ opt[1] = 0

\* Variant: no fallback to the first catalog of the genus.
mixCatalogIdExactOnly(catalogs, recipe, mixRow) ==
  catalogByVariant(catalogs,
    variantKey(recipe.genus, mixRow.productionItem, mixRow.variantCode))

\* The catalog id of a mix: exact variant key, else first catalog of the genus.
mixCatalogId(catalogs, recipe, mixRow) ==
  LET exact == catalogByVariant(catalogs,
                 variantKey(recipe.genus, mixRow.productionItem, mixRow.variantCode))
      same == {i \in 1..Len(catalogs) :
                 toLowerCase(catalogs[i].genus) = toLowerCase(recipe.genus)}
  IN IF ~falsy(exact) THEN exact
     ELSE IF same = {} THEN exact
     ELSE Some(catalogs[CHOOSE i \in same : \A j \in same : i <= j].id)

\* Variant: the id counter also advances when the segment is dropped.
warnNoRecipeCounting(st, mixRow, startWeek) ==
  [st EXCEPT
     !.warnings = Append(@,
        "No recipe found for " \o mixRow.location \o "/"
          \o mixRow.productionItem \o " week " \o ToString(startWeek)),
     !.id = @ + 1]

\* warnings.push(`No recipe found for ${location}/${productionItem} week ${startWeek}`)
warnNoRecipe(st, mixRow, startWeek) ==
  [st EXCEPT
     !.warnings = Append(@,
        "No recipe found for " \o mixRow.location \o "/"
          \o mixRow.productionItem \o " week " \o ToString(startWeek))]

\* The segment boundary block of the week loop: emit a mix or a warning for
\* the run [startWeek, endWeek] of percentage currentPct; st is
\* [mixes, warnings, id].
closeSegment(mixRow, currentPct, startWeek, endWeek, recipes, catalogs, st) ==
  LET recipe == pickBestRecipe(recipes, mixRow.location,
                               mixRow.productionItem, startWeek)
  IN IF recipe # Undefined
     THEN LET catalogId == mixCatalogId(catalogs, recipe[1], mixRow)
          IN [st EXCEPT
                !.mixes = Append(@,
                   [id |-> st.id,
                    recipeId |-> recipe[1].id,
                    catalogId |-> IF catalogId = Undefined THEN 0 ELSE catalogId[1],
                    mixPct |-> currentPct,
                    commonItem |-> mixRow.commonItem,
                    location |-> mixRow.location,
                    variant |-> mixRow.variantCode,
                    startWeek |-> startWeek,
                    endWeek |-> endWeek,
                    note |-> IF falsy(catalogId) THEN "No Catalog" ELSE "OK"]),
                !.id = @ + 1]
     ELSE warnNoRecipe(st, mixRow, startWeek)

\* Variant: a boundary only at the end of the sequence.
isBoundaryAtEndOnly(pct, currentPct, i, n) == i = n

\* if (pct !== currentPct || i === weekNums.length)
isBoundary(pct, currentPct, i, n) == pct # currentPct \/ i = n

\* for (let i = 0; i <= weekNums.length; i++), i counted from 0; startWeek is
\* an optional week.
RECURSIVE weekLoop(_, _, _, _, _, _, _, _)
weekLoop(mixRow, weekNums, i, currentPct, startWeek, recipes, catalogs, st) ==
  IF i > Len(weekNums) THEN st
  ELSE LET week == IF i < Len(weekNums) THEN Some(weekNums[i + 1]) ELSE Undefined
           pct == IF week # Undefined THEN mixRow.weeklyPcts[week[1]] ELSE -1
       IN IF isBoundary(pct, currentPct, i, Len(weekNums))
          THEN weekLoop(mixRow, weekNums, i + 1, pct, week, recipes, catalogs,
                 IF currentPct > 0 /\ startWeek # Undefined
                 THEN closeSegment(mixRow, currentPct, startWeek[1],
                                   IF i >= 1 THEN weekNums[i] ELSE startWeek[1],
                                   recipes, catalogs, st)
                 ELSE st)
          ELSE weekLoop(mixRow, weekNums, i + 1, currentPct, startWeek,
                        recipes, catalogs, st)

RECURSIVE mixRowLoop(_, _, _, _)
mixRowLoop(mixRows, recipes, catalogs, st) ==
  IF mixRows = <<>> THEN st
  ELSE LET mixRow == Head(mixRows)
           weekNums == SortedSeqOfSet(DOMAIN mixRow.weeklyPcts)
       IN IF Cardinality(DOMAIN mixRow.weeklyPcts) = 0
          THEN mixRowLoop(Tail(mixRows), recipes, catalogs, st)
          ELSE mixRowLoop(Tail(mixRows), recipes, catalogs,
                 weekLoop(mixRow, weekNums, 0, -1, Some(weekNums[1]),
                          recipes, catalogs, st))

generateMixes(d, recipes, catalogs) ==
  LET st == mixRowLoop(d.mixRows, recipes, catalogs,
                       [mixes |-> <<>>, warnings |-> <<>>, id |-> mixIdStart])
  IN [mixes |-> st.mixes, warnings |-> st.warnings]

----------------------------------------------------------------------------
(* transform                                                               *)

\* Variant: the check of schemeLines is missing.
inputErrorsSchemesOnly(d) ==
  IF Len(d.schemes) = 0 THEN <<"No ProductionScheme data found">> ELSE <<>>

inputErrors(d) ==
  (IF Len(d.schemes) = 0 THEN <<"No ProductionScheme data found">> ELSE <<>>)
    \o (IF Len(d.schemeLines) = 0
        THEN <<"No ProductionSchemeLine data found">> ELSE <<>>)

NoDictionary == <<>>

\* The dictionary transform builds; none is built on the error path.
transformDictionary(d) ==
  IF Len(inputErrors(d)) > 0 THEN NoDictionary ELSE buildSchemeDictionary(d)

transform(d) ==
  LET errors == inputErrors(d)
  IN IF Len(errors) > 0
     THEN [catalogs |-> <<>>, recipes |-> <<>>, events |-> <<>>,
           specs |-> <<>>, mixes |-> <<>>,
           errors |-> errors, warnings |-> <<>>]
     ELSE LET schemeDictionary == buildSchemeDictionary(d)
              catalogs == generateCatalogs(d)
              r == generateRecipes(d, schemeDictionary, catalogs)
              m == generateMixes(d, r.recipes, catalogs)
          IN [catalogs |-> catalogs,
              recipes |-> r.recipes,
              events |-> generateEvents(r.recipes, schemeDictionary),
              specs |-> generateSpecs(r.recipes, d),
              mixes |-> m.mixes,
              errors |-> errors,
              warnings |-> r.warnings \o m.warnings]

----------------------------------------------------------------------------
(* The rows the parsers can deliver (csvParser.ts, parseMixExcel)          *)

S1 == "BN-A-G1-SP"

S2 == "BN-B-G2-LSP"

SchemeKinds ==
  {[code |-> S1, genusCode |-> "G1"],
   [code |-> S2, genusCode |-> "G2"]}

\* duration and qtyPerArea count 1/Scale.
LineKinds ==
  {[schemeCode |-> S1, lineNo |-> "10000", phase |-> "GROW",
    duration |-> 5, qtyPerArea |-> 4 * Scale],
   [schemeCode |-> S1, lineNo |-> "20000", phase |-> "SPACE",
    duration |-> 2, qtyPerArea |-> 0],
   [schemeCode |-> S2, lineNo |-> "10000", phase |-> "GROW",
    duration |-> 4, qtyPerArea |-> 2 * Scale]}

\* days counts 1/Scale; periodNo is an integer (Math.round in the parser).
PeriodKinds ==
  {[schemeCode |-> S1, lineNo |-> "10000", phase |-> "GROW",
    days |-> 14 * Scale, periodNo |-> 10],
   [schemeCode |-> S1, lineNo |-> "10000", phase |-> "GROW",
    days |-> 35, periodNo |-> 20],
   [schemeCode |-> S1, lineNo |-> "20000", phase |-> "SPACE",
    days |-> 7 * Scale, periodNo |-> 30],
   [schemeCode |-> S2, lineNo |-> "10000", phase |-> "GROW",
    days |-> 28 * Scale, periodNo |-> 60]}

PreferenceKinds ==
  {[productionItemNo |-> "I1", variantCode |-> "V1",
    locationCode |-> "L1", schemeCode |-> S1],
   [productionItemNo |-> "I2", variantCode |-> "V2",
    locationCode |-> "L1", schemeCode |-> S1],
   [productionItemNo |-> "I1", variantCode |-> "V1",
    locationCode |-> "L2", schemeCode |-> S1],
   [productionItemNo |-> "I1", variantCode |-> "V1",
    locationCode |-> "L2", schemeCode |-> S2],
   [productionItemNo |-> "I1", variantCode |-> "V1",
    locationCode |-> "L1", schemeCode |-> "ZZ"]}

\* parseMixExcel stores only percentages > 0; a row with a production item
\* is kept even when its weekly map is empty.
MixKinds ==
  {[location |-> "L1", commonItem |-> "C1", productionItem |-> "I1",
    variantCode |-> "V1", weeklyPcts |-> (1 :> 50) @@ (2 :> 50) @@ (30 :> 75)],
   [location |-> "L1", commonItem |-> "C1", productionItem |-> "I9",
    variantCode |-> "V1", weeklyPcts |-> (5 :> 50)],
   [location |-> "L1", commonItem |-> "C1", productionItem |-> "I2",
    variantCode |-> "V2", weeklyPcts |-> <<>>]}

\* The total number of rows of one input.
MaxRows == 5

NoData ==
  [schemes |-> <<>>, schemeLines |-> <<>>, schemeLinePeriods |-> <<>>,
   preferences |-> <<>>, mixRows |-> <<>>]

NoResult ==
  [catalogs |-> <<>>, recipes |-> <<>>, events |-> <<>>, specs |-> <<>>,
   mixes |-> <<>>, errors |-> <<>>, warnings |-> <<>>]

----------------------------------------------------------------------------
(* Specification Spec: one transform call on any bounded input             *)

Init ==
  /\ \E ns \in 0..MaxRows :
       \E nl \in 0..(MaxRows - ns) :
         \E np \in 0..(MaxRows - ns - nl) :
           \E nf \in 0..(MaxRows - ns - nl - np) :
             \E nm \in 0..(MaxRows - ns - nl - np - nf) :
               \E schemes \in [1..ns -> SchemeKinds] :
                 \E schemeLines \in [1..nl -> LineKinds] :
                   \E schemeLinePeriods \in [1..np -> PeriodKinds] :
                     \E preferences \in [1..nf -> PreferenceKinds] :
                       \E mixRows \in [1..nm -> MixKinds] :
                         data = [schemes |-> schemes,
                                 schemeLines |-> schemeLines,
                                 schemeLinePeriods |-> schemeLinePeriods,
                                 preferences |-> preferences,
                                 mixRows |-> mixRows]
  /\ dict = NoDictionary
  /\ result = NoResult
  /\ pc = "idle"
  /\ rules = <<>>
  /\ merged = <<>>
  /\ firstResult = NoResult
  /\ calls = 0
  /\ validatorIdle
  /\ state = initialState
  /\ pending = {}

\* transform(data)
Transform ==
  /\ pc = "idle"
  /\ dict' = transformDictionary(data)
  /\ result' = transform(data)
  /\ pc' = "done"
  /\ UNCHANGED <<data, rules, merged, firstResult, calls>>
  /\ UNCHANGED validatorVars
  /\ UNCHANGED <<state, pending>>

Next == Transform

Spec == Init /\ [][Next]_vars

----------------------------------------------------------------------------
(* Specification SpecMerge: mergeGrowAndSpace on any bounded rule list     *)

MaxRules == 2

MergeWeeks == {1, 10, LastWeek}

RuleKinds ==
  [startWeek : MergeWeeks, endWeek : MergeWeeks, growWeeks : {1, 2},
   phase : {"GROW", "SPACE", "INVENTORY"}]

InitMerge ==
  /\ \E n \in 0..MaxRules : \E rs \in [1..n -> RuleKinds] : rules = rs
  /\ merged = <<>>
  /\ pc = "idle"
  /\ data = NoData
  /\ dict = NoDictionary
  /\ result = NoResult
  /\ firstResult = NoResult
  /\ calls = 0
  /\ validatorIdle
  /\ state = initialState
  /\ pending = {}

\* mergeGrowAndSpace(rules)
Merge ==
  /\ pc = "idle"
  /\ merged' = mergeGrowAndSpace(rules)
  /\ pc' = "done"
  /\ UNCHANGED <<data, dict, result, rules, firstResult, calls>>
  /\ UNCHANGED validatorVars
  /\ UNCHANGED <<state, pending>>

NextMerge == Merge

SpecMerge == InitMerge /\ [][NextMerge]_vars

----------------------------------------------------------------------------
(* Specification SpecRerun: transform called again on the same input, back *)
(* to back or after a call on another input                                *)

MaxRerunRows == 3

\* The inputs of the call in between: one scheme, one line, up to one preference.
OtherInputs ==
  UNION {{[schemes |-> <<s>>, schemeLines |-> <<l>>, schemeLinePeriods |-> <<>>,
           preferences |-> f, mixRows |-> <<>>] :
            s \in SchemeKinds,
            f \in {<<>>} \cup {<<k>> : k \in {p \in PreferenceKinds :
                                                    p.schemeCode = l.schemeCode}}} :
         l \in LineKinds}

InitRerun ==
  /\ \E ns \in 0..MaxRerunRows :
       \E nl \in 0..(MaxRerunRows - ns) :
         \E np \in 0..(MaxRerunRows - ns - nl) :
           \E nf \in 0..(MaxRerunRows - ns - nl - np) :
             \E nm \in 0..(MaxRerunRows - ns - nl - np - nf) :
               \E schemes \in [1..ns -> SchemeKinds] :
                 \E schemeLines \in [1..nl -> LineKinds] :
                   \E schemeLinePeriods \in [1..np -> PeriodKinds] :
                     \E preferences \in [1..nf -> PreferenceKinds] :
                       \E mixRows \in [1..nm -> MixKinds] :
                         data = [schemes |-> schemes,
                                 schemeLines |-> schemeLines,
                                 schemeLinePeriods |-> schemeLinePeriods,
                                 preferences |-> preferences,
                                 mixRows |-> mixRows]
  /\ dict = NoDictionary
  /\ result = NoResult
  /\ firstResult = NoResult
  /\ calls = 0
  /\ validatorIdle
  /\ state = initialState
  /\ pending = {}
  /\ pc = "idle"
  /\ rules = <<>>
  /\ merged = <<>>

\* The first transform(data); its result is kept for comparison.
TransformFirst ==
  /\ pc = "idle"
  /\ dict' = transformDictionary(data)
  /\ result' = transform(data)
  /\ firstResult' = result'
  /\ calls' = 1
  /\ pc' = "first"
  /\ UNCHANGED <<data, rules, merged>>
  /\ UNCHANGED validatorVars
  /\ UNCHANGED <<state, pending>>

\* transform(other) on another input.
TransformOther ==
  /\ pc = "first"
  /\ \E other \in OtherInputs :
       /\ other # data
       /\ dict' = transformDictionary(other)
       /\ result' = transform(other)
  /\ calls' = calls + 1
  /\ pc' = "other"
  /\ UNCHANGED <<data, firstResult, rules, merged>>
  /\ UNCHANGED validatorVars
  /\ UNCHANGED <<state, pending>>

\* transform(data) once more.
TransformAgain ==
  /\ pc \in {"first", "other"}
  /\ dict' = transformDictionary(data)
  /\ result' = transform(data)
  /\ calls' = calls + 1
  /\ pc' = "again"
  /\ UNCHANGED <<data, firstResult, rules, merged>>
  /\ UNCHANGED validatorVars
  /\ UNCHANGED <<state, pending>>

NextRerun == TransformFirst \/ TransformOther \/ TransformAgain

SpecRerun == InitRerun /\ [][NextRerun]_vars

----------------------------------------------------------------------------
(* Specification SpecMix: one transform call on inputs with one mix row    *)
(* whose weekly map ranges over every map of the first weeks               *)

\* The weeks of the mix sheet that carry a column.
MaxMixWeek == 5

\* The normalized percentages a populated cell holds.
MixPcts == {50, 75}

\* Scheme rows: genus codes that differ by case only, and scheme lists that
\* lack the row of S1, one of them with an empty genus code.
MixSchemeLists ==
  {<<[code |-> S1, genusCode |-> "G1"]>>,
   <<[code |-> S1, genusCode |-> "G1"], [code |-> S2, genusCode |-> "g1"]>>,
   <<[code |-> S2, genusCode |-> "g1"], [code |-> S1, genusCode |-> "G1"]>>,
   <<[code |-> S2, genusCode |-> "G2"]>>,
   <<[code |-> S2, genusCode |-> ""]>>}

MixLines ==
  <<[schemeCode |-> S1, lineNo |-> "10000", phase |-> "GROW",
     duration |-> 5, qtyPerArea |-> 4 * Scale],
    [schemeCode |-> S2, lineNo |-> "10000", phase |-> "GROW",
     duration |-> 4, qtyPerArea |-> 2 * Scale]>>

\* No periods (S1 spans the year) or periods 1 and 11 (windows [1,10], [11,53]).
MixPeriodLists ==
  {<<>>,
   <<[schemeCode |-> S1, lineNo |-> "10000", phase |-> "GROW",
      days |-> 14 * Scale, periodNo |-> 1],
     [schemeCode |-> S1, lineNo |-> "10000", phase |-> "GROW",
      days |-> 14 * Scale, periodNo |-> 11]>>}

MixPreference(item, variant, scheme) ==
  [productionItemNo |-> item, variantCode |-> variant,
   locationCode |-> "L1", schemeCode |-> scheme]

MixPreferenceLists ==
  {<<>>,
   <<MixPreference("I1", "V1", S1)>>,
   <<MixPreference("I1", "V1", S1), MixPreference("I1", "V1", S2)>>,
   <<MixPreference("I1", "V1", S2), MixPreference("I1", "V1", S1)>>,
   <<MixPreference("", "", S1)>>}

\* One row of the mix sheet with every weekly map over the first weeks.
MixRowsOfSheet ==
  UNION {{[location |-> k[1], commonItem |-> "C1", productionItem |-> k[2],
           variantCode |-> k[3], weeklyPcts |-> w] :
            k \in {<<"L1", "I1", "V1">>, <<"L1", "", "">>, <<"L2", "I1", "V1">>},
            w \in [W -> MixPcts]} :
         W \in SUBSET (1..MaxMixWeek)}

InitMix ==
  /\ \E schemes \in MixSchemeLists :
       \E schemeLinePeriods \in MixPeriodLists :
         \E preferences \in MixPreferenceLists :
           \E mixRow \in MixRowsOfSheet :
             data = [schemes |-> schemes,
                     schemeLines |-> MixLines,
                     schemeLinePeriods |-> schemeLinePeriods,
                     preferences |-> preferences,
                     mixRows |-> <<mixRow>>]
  /\ dict = NoDictionary
  /\ result = NoResult
  /\ pc = "idle"
  /\ rules = <<>>
  /\ merged = <<>>
  /\ firstResult = NoResult
  /\ calls = 0
  /\ validatorIdle
  /\ state = initialState
  /\ pending = {}

NextMix == Transform

SpecMix == InitMix /\ [][NextMix]_vars

----------------------------------------------------------------------------
(* Specification SpecMixWindow: one mix row against recipes whose windows   *)
(* [1,3] and [4,53] meet inside the weeks of the sheet                      *)

InitMixWindow ==
  /\ \E schemes \in MixSchemeLists :
       \E preferences \in MixPreferenceLists :
         \E mixRow \in MixRowsOfSheet :
           data = [schemes |-> schemes,
                   schemeLines |-> MixLines,
                   schemeLinePeriods |->
                     <<[schemeCode |-> S1, lineNo |-> "10000", phase |-> "GROW",
                        days |-> 14 * Scale, periodNo |-> 1],
                       [schemeCode |-> S1, lineNo |-> "10000", phase |-> "GROW",
                        days |-> 14 * Scale, periodNo |-> 4]>>,
                   preferences |-> preferences,
                   mixRows |-> <<mixRow>>]
  /\ dict = NoDictionary
  /\ result = NoResult
  /\ pc = "idle"
  /\ rules = <<>>
  /\ merged = <<>>
  /\ firstResult = NoResult
  /\ calls = 0
  /\ validatorIdle
  /\ state = initialState
  /\ pending = {}

SpecMixWindow == InitMixWindow /\ [][Transform]_vars

----------------------------------------------------------------------------
(* ValidationEngine: validateParsedData (validator.ts)                     *)

\* One ValidationIssue: severity, category and the optional count; message
\* and details are texts built from the same count and codes.
issue(severity, category, count) ==
  [severity |-> severity, category |-> category, count |-> count]

\* issues.push(...) under a condition.
issueIf(cond, severity, category, count) ==
  IF cond THEN <<issue(severity, category, count)>> ELSE <<>>

\* new Set(rows.map(r => r.schemeCode))
schemeCodesIn(rows) == {rows[i].schemeCode : i \in 1..Len(rows)}

schemeCodesInSchemes(d) == {d.schemes[i].code : i \in 1..Len(d.schemes)}

\* Variant: missing preferences reported as a warning.
missingPreferencesAsWarning(d) ==
  issueIf(Len(d.preferences) = 0, "warning", "Missing Data", Undefined)

\* if (data.preferences.length === 0) issues.push({ severity: 'error', ... })
missingPreferences(d) ==
  issueIf(Len(d.preferences) = 0, "error", "Missing Data", Undefined)

\* The presence checks.
missingDataIssues(d) ==
  issueIf(Len(d.schemes) = 0, "error", "Missing Data", Undefined)
    \o issueIf(Len(d.schemeLines) = 0, "error", "Missing Data", Undefined)
    \o missingPreferences(d)
    \o issueIf(Len(d.schemeLinePeriods) = 0, "warning", "Missing Data", Some(0))
    \o issueIf(Len(d.mixRows) = 0, "info", "Optional Data", Undefined)

\* An issue that counts the members of a set, pushed when there are any.
countedIssue(S, severity, category) ==
  issueIf(S # {}, severity, category, Some(Cardinality(S)))

orphanIssues(d) ==
  countedIssue(schemeCodesIn(d.preferences) \ schemeCodesInSchemes(d),
               "warning", "Orphan References")
    \o countedIssue(schemeCodesIn(d.schemeLines) \ schemeCodesInSchemes(d),
                    "warning", "Orphan References")
    \o countedIssue(schemeCodesIn(d.schemeLinePeriods) \ schemeCodesInSchemes(d),
                    "info", "Orphan References")

incompleteIssues(d) ==
  countedIssue(schemeCodesInSchemes(d) \ schemeCodesIn(d.schemeLines),
               "warning", "Incomplete Data")
    \o countedIssue(schemeCodesIn(d.preferences) \ schemeCodesIn(d.schemeLines),
                    "warning", "Transform Impact")

\* Zero-duration lines and empty genus codes count rows, duplicates count codes.
qualityIssues(d) ==
  countedIssue({i \in 1..Len(d.schemeLines) : d.schemeLines[i].duration = 0},
               "info", "Data Quality")
    \o countedIssue({i \in 1..Len(d.schemes) : d.schemes[i].genusCode = ""},
                    "warning", "Data Quality")
    \o countedIssue(
         {c \in schemeCodesInSchemes(d) :
            Cardinality({i \in 1..Len(d.schemes) : d.schemes[i].code = c}) > 1},
         "warning", "Duplicates")

\* The mix cross-validation; .filter(Boolean) drops the empty location.
mixIssues(d) ==
  IF Len(d.mixRows) = 0 THEN <<>>
  ELSE LET mixLocations == {d.mixRows[i].location : i \in 1..Len(d.mixRows)} \ {""}
           prefLocations ==
             {d.preferences[i].locationCode : i \in 1..Len(d.preferences)} \ {""}
           prefItems ==
             {d.preferences[i].locationCode \o "|" \o d.preferences[i].productionItemNo :
                i \in 1..Len(d.preferences)}
           mixItemsNoPrefs ==
             {d.mixRows[i].location \o "|" \o d.mixRows[i].productionItem :
                i \in 1..Len(d.mixRows)} \ prefItems
       IN countedIssue(mixLocations \ prefLocations, "warning", "Mix Data")
            \o countedIssue(mixItemsNoPrefs, "info", "Mix Data")

validationIssues(d) ==
  missingDataIssues(d) \o orphanIssues(d) \o incompleteIssues(d)
    \o qualityIssues(d) \o mixIssues(d)

\* issues.filter(i => i.severity === severity).length
severityCount(issues, severity) ==
  Cardinality({i \in 1..Len(issues) : issues[i].severity = severity})

\* Variant: info issues counted with the warnings.
warningCountWithInfo(issues) ==
  severityCount(issues, "warning") + severityCount(issues, "info")

warningCount(issues) == severityCount(issues, "warning")

\* score = Math.max(0, Math.min(100, 100 - errorCount * 25 - warningCount * 5))
qualityScore(issues) ==
  Max2(0, Min2(100, 100 - severityCount(issues, "error") * 25
                        - warningCount(issues) * 5))

\* Variant: canTransform taken for the absence of errors.
canTransformIsValid(d) == severityCount(validationIssues(d), "error") = 0

\* canTransform: data.schemes.length > 0 && data.schemeLines.length > 0
canTransform(d) == Len(d.schemes) > 0 /\ Len(d.schemeLines) > 0

\* The ValidationResult without its stats (counts of the collections).
validateParsedData(d) ==
  LET issues == validationIssues(d)
  IN [isValid |-> severityCount(issues, "error") = 0,
      canTransform |-> canTransform(d),
      issues |-> issues,
      qualityScore |-> qualityScore(issues)]

----------------------------------------------------------------------------
(* Specification SpecValidate: validateParsedData, then transform, on any  *)
(* bounded input with orphan codes, empty genus and zero duration          *)

ValidateSchemeKinds ==
  {[code |-> S1, genusCode |-> "G1"],
   [code |-> S2, genusCode |-> ""]}

ValidateLineKinds ==
  {[schemeCode |-> S1, lineNo |-> "10000", phase |-> "GROW",
    duration |-> 5, qtyPerArea |-> 4 * Scale],
   [schemeCode |-> S2, lineNo |-> "10000", phase |-> "GROW",
    duration |-> 0, qtyPerArea |-> 0],
   [schemeCode |-> "ZZ", lineNo |-> "10000", phase |-> "SPACE",
    duration |-> 4, qtyPerArea |-> 2 * Scale]}

ValidatePeriodKinds ==
  {[schemeCode |-> S1, lineNo |-> "10000", phase |-> "GROW",
    days |-> 14 * Scale, periodNo |-> 10],
   [schemeCode |-> "ZZ", lineNo |-> "10000", phase |-> "SPACE",
    days |-> 7 * Scale, periodNo |-> 20]}

ValidatePreferenceKinds ==
  {[productionItemNo |-> "I1", variantCode |-> "V1",
    locationCode |-> "L1", schemeCode |-> S1],
   [productionItemNo |-> "I1", variantCode |-> "V1",
    locationCode |-> "L2", schemeCode |-> "ZZ"]}

ValidateMixKinds ==
  {[location |-> "L1", commonItem |-> "C1", productionItem |-> "I1",
    variantCode |-> "V1", weeklyPcts |-> (1 :> 50)],
   [location |-> "L3", commonItem |-> "C1", productionItem |-> "I9",
    variantCode |-> "V1", weeklyPcts |-> (1 :> 50)]}

\* The total number of rows of one validated input.
MaxValidateRows == 5

InitValidate ==
  /\ \E ns \in 0..MaxValidateRows :
       \E nl \in 0..(MaxValidateRows - ns) :
         \E np \in 0..(MaxValidateRows - ns - nl) :
           \E nf \in 0..(MaxValidateRows - ns - nl - np) :
             \E nm \in 0..(MaxValidateRows - ns - nl - np - nf) :
               \E schemes \in [1..ns -> ValidateSchemeKinds] :
                 \E schemeLines \in [1..nl -> ValidateLineKinds] :
                   \E schemeLinePeriods \in [1..np -> ValidatePeriodKinds] :
                     \E preferences \in [1..nf -> ValidatePreferenceKinds] :
                       \E mixRows \in [1..nm -> ValidateMixKinds] :
                         data = [schemes |-> schemes,
                                 schemeLines |-> schemeLines,
                                 schemeLinePeriods |-> schemeLinePeriods,
                                 preferences |-> preferences,
                                 mixRows |-> mixRows]
  /\ dict = NoDictionary
  /\ result = NoResult
  /\ pc = "idle"
  /\ rules = <<>>
  /\ merged = <<>>
  /\ firstResult = NoResult
  /\ calls = 0
  /\ validatorIdle
  /\ state = initialState
  /\ pending = {}

\* validateParsedData(data)
Validate ==
  /\ pc = "idle"
  /\ validation' = Some(validateParsedData(data))
  /\ pc' = "validated"
  /\ UNCHANGED <<data, dict, result, rules, merged, firstResult, calls,
                 sourceData, compareFile, comparison, detected>>
  /\ UNCHANGED <<state, pending>>

\* transform(data) on the validated input
TransformValidated ==
  /\ pc = "validated"
  /\ dict' = transformDictionary(data)
  /\ result' = transform(data)
  /\ pc' = "done"
  /\ UNCHANGED <<data, rules, merged, firstResult, calls>>
  /\ UNCHANGED validatorVars
  /\ UNCHANGED <<state, pending>>

NextValidate == Validate \/ TransformValidated

SpecValidate == InitValidate /\ [][NextValidate]_vars

----------------------------------------------------------------------------
(* ComparisonEngine: configurations, keys and headers (validator.ts)       *)

\* COMPARE_CONFIGS in the order of its entries.
CompareTypes == <<"recipes", "catalogs", "events", "specs", "mixes">>

COMPARE_CONFIGS ==
  [recipes |->
     [keyFields |-> <<"locationCode", "schemeCode", "startWeek", "endWeek">>,
      compareFields |-> <<"genus", "series", "color", "growWeeks", "category",
                          "catalogId", "notes">>,
      label |-> "Recipes"],
   catalogs |->
     [keyFields |-> <<"genus", "series", "color">>,
      compareFields |-> <<>>,
      label |-> "Catalogs"],
   events |->
     [keyFields |-> <<"recipeId", "phase", "startWeek", "endWeek">>,
      compareFields |-> <<"locationCode", "triggerWeeks", "durationWeeks">>,
      label |-> "Events"],
   specs |->
     [keyFields |-> <<"recipeId", "phase">>,
      compareFields |-> <<"spaceWidth", "spaceLength", "qtyPerArea">>,
      label |-> "Space Specs"],
   mixes |->
     [keyFields |-> <<"recipeId", "catalogId", "startWeek", "endWeek">>,
      compareFields |-> <<"mixPct", "commonItem", "location", "variant", "note">>,
      label |-> "Mixes"]]

\* String.prototype.trim on the strings of the model.
trim(s) ==
  CASE s = " grow " -> "grow"
    [] OTHER -> s

\* replace(/[_ ]/g, '') on the lower-case strings of the model.
removeUnderscoreSpace(s) ==
  CASE s = "recipe id" -> "recipeid"
    [] s = "space_width" -> "spacewidth"
    [] s = "scheme code" -> "schemecode"
    [] OTHER -> s

\* replace(/[_. ]/g, '') on the lower-case strings of the model.
removeUnderscoreDotSpace(s) ==
  CASE s = "recipe id" -> "recipeid"
    [] s = "space_width" -> "spacewidth"
    [] s = "scheme code" -> "schemecode"
    [] s = "space.length" -> "spacelength"
    [] s = "location.code" -> "locationcode"
    [] OTHER -> s

\* parseFloat on the strings of the model, in tenths; <<>> is NaN.
parseFloat(s) ==
  CASE s = "1" -> Some(10)
    [] s = "2" -> Some(20)
    [] s = "2.0" -> Some(20)
    [] s = "4" -> Some(40)
    [] s = "9" -> Some(90)
    [] OTHER -> Undefined

\* row[f] ?? '' on a row held as a function from field names to strings.
fieldOr(row, f) == IF f \in DOMAIN row THEN row[f] ELSE ""

\* keyFields.map(f => ...).join('|') from the j-th field on.
RECURSIVE joinKey(_, _, _)
joinKey(row, keyFields, j) ==
  IF j > Len(keyFields) THEN ""
  ELSE toLowerCase(trim(fieldOr(row, keyFields[j])))
         \o (IF j < Len(keyFields) THEN "|" ELSE "")
         \o joinKey(row, keyFields, j + 1)

buildKey(row, keyFields) == joinKey(row, keyFields, 1)

\* cfg.keyFields.map(() => '').join('|')
RECURSIVE emptyKey(_)
emptyKey(keyFields) ==
  IF Len(keyFields) <= 1 THEN "" ELSE "|" \o emptyKey(Tail(keyFields))

\* [...config.keyFields, ...config.compareFields]
allFields(config) == config.keyFields \o config.compareFields

\* h === f.toLowerCase() || h.replace(/[_ ]/g, '') === f.toLowerCase().replace(/[_ ]/g, '')
\* with h the lower-cased and trimmed header.
headerMatchesField(h, f) ==
  \/ trim(toLowerCase(h)) = toLowerCase(f)
  \/ removeUnderscoreSpace(trim(toLowerCase(h)))
       = removeUnderscoreSpace(toLowerCase(f))

\* The score of one configuration.
detectScore(headers, config) ==
  Cardinality({j \in 1..Len(allFields(config)) :
                 \E i \in 1..Len(headers) :
                   headerMatchesField(headers[i], allFields(config)[j])})

\* st is [bestType, bestScore]; bestType is an optional type.
RECURSIVE detectLoop(_, _, _)
detectLoop(headers, types, st) ==
  IF types = <<>> THEN st
  ELSE LET score == detectScore(headers, COMPARE_CONFIGS[Head(types)])
       IN detectLoop(headers, Tail(types),
            IF score > st.bestScore
            THEN [bestType |-> Some(Head(types)), bestScore |-> score]
            ELSE st)

\* detectCompareType(headers): an optional type, <<>> for null.
detectCompareType(headers) ==
  LET st == detectLoop(headers, CompareTypes,
                       [bestType |-> Undefined, bestScore |-> 0])
  IN IF st.bestScore >= 2 THEN st.bestType ELSE Undefined

\* headers.find(...): the first header among the positions that satisfy
\* the test, or <<>>.
findHeader(headers, hits) ==
  IF hits = {} THEN Undefined
  ELSE Some(headers[CHOOSE i \in hits : \A j \in hits : i <= j])

\* headerMap.get(field): exact, then case-insensitive, then without
\* underscores, dots and spaces.
headerFor(headers, field) ==
  LET exact == {i \in 1..Len(headers) : headers[i] = field}
      sameLower == {i \in 1..Len(headers) :
                      toLowerCase(headers[i]) = toLowerCase(field)}
      fuzzy == {i \in 1..Len(headers) :
                  removeUnderscoreDotSpace(toLowerCase(headers[i]))
                    = removeUnderscoreDotSpace(toLowerCase(field))}
  IN IF findHeader(headers, exact) # Undefined THEN Some(field)
     ELSE IF findHeader(headers, sameLower) # Undefined
          THEN findHeader(headers, sameLower)
          ELSE findHeader(headers, fuzzy)

\* One remapped row: the mapped fields, and every original field whose
\* mapped value is missing or empty.
normalizeRow(row, headers, config) ==
  LET fields == {allFields(config)[j] : j \in 1..Len(allFields(config))}
      mappedFields == {f \in fields : headerFor(headers, f) # Undefined}
      mapped(f) == fieldOr(row, headerFor(headers, f)[1])
  IN [k \in mappedFields \cup DOMAIN row |->
        IF k \in mappedFields /\ mapped(k) # "" THEN mapped(k)
        ELSE IF k \in DOMAIN row THEN row[k]
        ELSE mapped(k)]

normalizeHeaders(rows, headers, config) ==
  [i \in 1..Len(rows) |-> normalizeRow(rows[i], headers, config)]

----------------------------------------------------------------------------
(* ComparisonEngine: compareData (validator.ts)                            *)

\* A value of a generated row: <<"nil">>, <<"num", n>> or <<"str", s>>.
\* String(v ?? '')
stringOf(v) ==
  CASE v[1] = "nil" -> ""
    [] v[1] = "num" -> ToString(v[2])
    [] v[1] = "str" -> v[2]

\* sourceData.map(row => ...): every value of the row as a string.
sourceRowsOf(rows) ==
  [i \in 1..Len(rows) |-> [k \in DOMAIN rows[i] |-> stringOf(rows[i][k])]]

\* Map.set on an index held as a sequence of [key, row] in insertion order.
indexSet(index, key, row) ==
  IF \E i \in 1..Len(index) : index[i].key = key
  THEN [i \in 1..Len(index) |->
          IF index[i].key = key THEN [key |-> key, row |-> row] ELSE index[i]]
  ELSE Append(index, [key |-> key, row |-> row])

\* Variant: rows with an entirely empty key are indexed as well.
keyIndexedAlways(key, keyFields) == TRUE

\* if (key && key !== cfg.keyFields.map(() => '').join('|'))
keyIndexed(key, keyFields) == key # "" /\ key # emptyKey(keyFields)

RECURSIVE buildIndex(_, _, _)
buildIndex(rows, keyFields, index) ==
  IF rows = <<>> THEN index
  ELSE LET key == buildKey(Head(rows), keyFields)
       IN buildIndex(Tail(rows), keyFields,
            IF keyIndexed(key, keyFields)
            THEN indexSet(index, key, Head(rows)) ELSE index)

indexGet(index, key) ==
  LET hits == {i \in 1..Len(index) : index[i].key = key}
  IN IF hits = {} THEN Undefined ELSE Some(index[CHOOSE i \in hits : TRUE].row)

\* The numeric-aware comparison of one field of two rows.
fieldDiffers(sourceRow, compareRow, field) ==
  LET sourceVal == trim(fieldOr(sourceRow, field))
      compareVal == trim(fieldOr(compareRow, field))
      sourceNum == parseFloat(sourceVal)
      compareNum == parseFloat(compareVal)
  IN IF sourceNum # Undefined /\ compareNum # Undefined
     THEN sourceNum # compareNum
     ELSE toLowerCase(sourceVal) # toLowerCase(compareVal)

\* value || '(empty)'
orEmptyMark(value) == IF value = "" THEN "(empty)" ELSE value

RECURSIVE diffsOf(_, _, _)
diffsOf(sourceRow, compareRow, fields) ==
  IF fields = <<>> THEN <<>>
  ELSE (IF fieldDiffers(sourceRow, compareRow, Head(fields))
        THEN <<[field |-> Head(fields),
                expected |-> orEmptyMark(trim(fieldOr(compareRow, Head(fields)))),
                actual |-> orEmptyMark(trim(fieldOr(sourceRow, Head(fields))))]>>
        ELSE <<>>)
       \o diffsOf(sourceRow, compareRow, Tail(fields))

\* The result row of one entry of the source index.
sourceResultRow(entry, compareIndex, cfg) ==
  LET compareRow == indexGet(compareIndex, entry.key)
  IN IF compareRow = Undefined
     THEN [status |-> "added", key |-> entry.key, diffs |-> <<>>,
           sourceRow |-> Some(entry.row), compareRow |-> Undefined]
     ELSE LET diffs == diffsOf(entry.row, compareRow[1], cfg.compareFields)
          IN [status |-> IF Len(diffs) > 0 THEN "changed" ELSE "matched",
              key |-> entry.key, diffs |-> diffs,
              sourceRow |-> Some(entry.row), compareRow |-> compareRow]

removedResultRow(entry) ==
  [status |-> "removed", key |-> entry.key, diffs |-> <<>>,
   sourceRow |-> Undefined, compareRow |-> Some(entry.row)]

\* The rows of a sequence at the given positions, in order.
selectRows(rows, positions) ==
  LET kept == SortedSeqOfSet(positions)
  IN [k \in 1..Len(kept) |-> rows[kept[k]]]

\* resultRows.sort by statusOrder: changed, added, removed, matched (stable).
sortByStatus(rows) ==
  LET withStatus(status) == {i \in 1..Len(rows) : rows[i].status = status}
  IN selectRows(rows, withStatus("changed")) \o selectRows(rows, withStatus("added"))
       \o selectRows(rows, withStatus("removed")) \o selectRows(rows, withStatus("matched"))

statusCount(rows, status) ==
  Cardinality({i \in 1..Len(rows) : rows[i].status = status})

\* compareData(sourceData, compareFile, dataType) with the configuration of
\* the data type.
compareData(source, file, dataType) ==
  LET cfg == COMPARE_CONFIGS[dataType]
      compareRows == normalizeHeaders(file.rows, file.headers, cfg)
      compareIndex == buildIndex(compareRows, cfg.keyFields, <<>>)
      sourceIndex == buildIndex(sourceRowsOf(source), cfg.keyFields, <<>>)
      notInSource == {i \in 1..Len(compareIndex) :
                        indexGet(sourceIndex, compareIndex[i].key) = Undefined}
      fromSource == [i \in 1..Len(sourceIndex) |->
                       sourceResultRow(sourceIndex[i], compareIndex, cfg)]
      onlyCompare == selectRows(compareIndex, notInSource)
      fromCompare == [i \in 1..Len(onlyCompare) |-> removedResultRow(onlyCompare[i])]
      resultRows == sortByStatus(fromSource \o fromCompare)
  IN [dataType |-> cfg.label,
      config |-> cfg,
      totalSource |-> Len(sourceIndex),
      totalCompare |-> Len(compareIndex),
      matched |-> statusCount(resultRows, "matched"),
      added |-> statusCount(resultRows, "added"),
      removed |-> statusCount(resultRows, "removed"),
      changed |-> statusCount(resultRows, "changed"),
      rows |-> resultRows]

----------------------------------------------------------------------------
(* Specification SpecCompare: compareData of generated space specs with a  *)
(* reference file                                                          *)

\* Rows per side of one comparison.
MaxCompareRows == 2

specRow(recipeId, phase, width, qty) ==
  [id |-> <<"num", 1>>, recipeId |-> recipeId, phase |-> phase,
   spaceWidth |-> width, spaceLength |-> width, qtyPerArea |-> qty]

\* Generated rows: two keys, a key that differs by case only, and a row
\* without key values.
SourceRowKinds ==
  {specRow(<<"num", 1>>, <<"str", "GROW">>, <<"num", 2>>, <<"num", 4>>),
   specRow(<<"num", 1>>, <<"str", "SPACE">>, <<"num", 1>>, <<"num", 1>>),
   specRow(<<"num", 1>>, <<"str", "grow">>, <<"num", 1>>, <<"num", 1>>),
   specRow(<<"nil">>, <<"str", "">>, <<"num", 2>>, <<"num", 4>>)}

\* Header rows of the reference file: canonical names, and names that differ
\* by case and separators.
HeaderRowKinds ==
  {<<"recipeId", "phase", "spaceWidth", "spaceLength", "qtyPerArea">>,
   <<"Recipe ID", "PHASE", "space_width", "Space.Length", "QtyPerArea">>}

\* The cells of a reference row, by column.
ReferenceCellKinds ==
  {<<"1", "GROW", "2", "2", "4">>,
   <<"1", " grow ", "2.0", "2", "4">>,
   <<"1", "SPACE", "1", "1", "9">>,
   <<"2", "", "2", "2", "4">>,
   <<"", "", "", "", "">>}

\* headers.forEach((h, idx) => { row[h] = values[idx] ?? '' })
referenceRow(headers, cells) ==
  [h \in {headers[i] : i \in 1..Len(headers)} |->
     cells[CHOOSE i \in 1..Len(headers) : headers[i] = h]]

InitCompare ==
  /\ \E n \in 0..MaxCompareRows :
       \E rows \in [1..n -> SourceRowKinds] : sourceData = rows
  /\ \E headers \in HeaderRowKinds :
       \E n \in 0..MaxCompareRows :
         \E cells \in [1..n -> ReferenceCellKinds] :
           compareFile = [headers |-> headers,
                          rows |-> [i \in 1..n |-> referenceRow(headers, cells[i])]]
  /\ data = NoData
  /\ dict = NoDictionary
  /\ result = NoResult
  /\ pc = "idle"
  /\ rules = <<>>
  /\ merged = <<>>
  /\ firstResult = NoResult
  /\ calls = 0
  /\ validation = <<>>
  /\ comparison = <<>>
  /\ detected = <<>>
  /\ state = initialState
  /\ pending = {}

\* compareData(sourceData, compareFile, 'specs')
Compare ==
  /\ pc = "idle"
  /\ comparison' = Some(compareData(sourceData, compareFile, "specs"))
  /\ pc' = "compared"
  /\ UNCHANGED <<data, dict, result, rules, merged, firstResult, calls,
                 validation, sourceData, compareFile, detected>>
  /\ UNCHANGED <<state, pending>>

NextCompare == Compare

SpecCompare == InitCompare /\ [][NextCompare]_vars

----------------------------------------------------------------------------
(* Specification SpecDetect: detectCompareType on any bounded header row   *)

\* The number of columns of a header row.
MaxHeaders == 3

HeaderKinds ==
  {"recipeId", "phase", "PHASE", "Recipe ID", "space_width", "Space.Length",
   "Location.Code", "Scheme Code", "genus", "Foo"}

InitDetect ==
  /\ \E n \in 0..MaxHeaders :
       \E headers \in [1..n -> HeaderKinds] :
         compareFile = [headers |-> headers, rows |-> <<>>]
  /\ data = NoData
  /\ dict = NoDictionary
  /\ result = NoResult
  /\ pc = "idle"
  /\ rules = <<>>
  /\ merged = <<>>
  /\ firstResult = NoResult
  /\ calls = 0
  /\ validation = <<>>
  /\ sourceData = <<>>
  /\ comparison = <<>>
  /\ detected = <<>>
  /\ state = initialState
  /\ pending = {}

\* detectCompareType(compareFile.headers)
Detect ==
  /\ pc = "idle"
  /\ detected' = detectCompareType(compareFile.headers)
  /\ pc' = "detected"
  /\ UNCHANGED <<data, dict, result, rules, merged, firstResult, calls,
                 validation, sourceData, compareFile, comparison>>
  /\ UNCHANGED <<state, pending>>

NextDetect == Detect

SpecDetect == InitDetect /\ [][NextDetect]_vars

----------------------------------------------------------------------------
(* Specification SpecScenario: transform on the rows of one scheme whose    *)
(* code has four tokens, a GROW line of 6 weeks and 4 plants per area       *)

ScenarioScheme == "BN-10INMUM-NSLN-SP"

\* The most rows of one kind in a scenario input.
MaxScenarioRows == 2

\* Up to one scheme row (with or without a genus), lines and preferences in
\* any order and number up to MaxScenarioRows, no periods, no mix rows;
\* duration and qtyPerArea count 1/Scale.
ScenarioInputs ==
  LET schemeLists ==
        {<<>>} \cup {<<[code |-> ScenarioScheme, genusCode |-> g]>> :
                       g \in {"", "G1"}}
      lineKinds ==
        {[schemeCode |-> ScenarioScheme, lineNo |-> "10000", phase |-> "GROW",
          duration |-> 6 * Scale, qtyPerArea |-> 4 * Scale],
         [schemeCode |-> ScenarioScheme, lineNo |-> "20000", phase |-> "SPACE",
          duration |-> 2 * Scale, qtyPerArea |-> 0]}
      preferenceKinds ==
        {[productionItemNo |-> "4000084", variantCode |-> "B01",
          locationCode |-> l, schemeCode |-> ScenarioScheme] :
           l \in {"KY01", "KY02"}}
  IN UNION {UNION {{[schemes |-> s, schemeLines |-> ls,
                     schemeLinePeriods |-> <<>>, preferences |-> ps,
                     mixRows |-> <<>>] :
                      s \in schemeLists,
                      ls \in [1..nl -> lineKinds],
                      ps \in [1..nf -> preferenceKinds]} :
                   nl \in 0..MaxScenarioRows} :
            nf \in 0..MaxScenarioRows}

InitScenario ==
  /\ data \in ScenarioInputs
  /\ dict = NoDictionary
  /\ result = NoResult
  /\ pc = "idle"
  /\ rules = <<>>
  /\ merged = <<>>
  /\ firstResult = NoResult
  /\ calls = 0
  /\ validatorIdle
  /\ state = initialState
  /\ pending = {}

SpecScenario == InitScenario /\ [][Transform]_vars

----------------------------------------------------------------------------
(* useTransformPipeline: the hook's state and its callbacks.  A callback    *)
(* runs to its next await in one step; a call suspended at an await sits in *)
(* pending with what its closure holds, and any other callback may run      *)
(* before it resumes.  transform does not throw on the inputs of the model, *)
(* so the catch branch of runTransform is never entered.                    *)

\* The most files uploaded at a time, and the most suspended calls.
MaxFiles == 3

MaxPending == 1

\* The files a user can add, by name.
UploadKinds ==
  {"ProductionScheme.csv", "ProductionSchemeLine.csv",
   "ProductionPreferences.csv", "Mix.xlsx"}

\* The ParsedData parseAndValidate builds from the uploaded files: each CSV
\* kind sets its collection (parseAllFiles), each Excel file appends its mix
\* rows.  Every file of a kind has the same content.
parseUploaded(uploaded) ==
  LET has(name) == \E i \in 1..Len(uploaded) : uploaded[i].name = name
      excelFiles == SelectSeq(uploaded, LAMBDA f : f.type = "excel")
  IN [schemes |->
        IF has("ProductionScheme.csv")
        THEN <<[code |-> S1, genusCode |-> "G1"]>> ELSE <<>>,
      schemeLines |->
        IF has("ProductionSchemeLine.csv")
        THEN <<[schemeCode |-> S1, lineNo |-> "10000", phase |-> "GROW",
                duration |-> 5, qtyPerArea |-> 4 * Scale]>>
        ELSE <<>>,
      schemeLinePeriods |-> <<>>,
      preferences |->
        IF has("ProductionPreferences.csv")
        THEN <<[productionItemNo |-> "I1", variantCode |-> "V1",
                locationCode |-> "L1", schemeCode |-> S1]>>
        ELSE <<>>,
      mixRows |->
        [i \in 1..Len(excelFiles) |->
           [location |-> "L1", commonItem |-> "C1", productionItem |-> "I1",
            variantCode |-> "V1", weeklyPcts |-> (1 :> 50)]]]

\* updateStep(index, {status}): index counts from 0.
updateStep(steps, index, status) == [steps EXCEPT ![index + 1] = status]

\* addFiles(files): the files are read first and the state is set from the
\* state of that moment (setState(prev => ...)), so the call takes effect
\* in one step.
addFiles ==
  /\ \E n \in 1..(MaxFiles - Len(state.uploadedFiles)) :
       \E names \in [1..n -> UploadKinds] :
         state' =
           [state EXCEPT
              !.uploadedFiles =
                 @ \o [i \in 1..n |->
                         [name |-> names[i],
                          type |-> IF names[i] = "Mix.xlsx" THEN "excel"
                                   ELSE "arc-flow"]],
              !.parsedData = Undefined,
              !.validationResult = Undefined,
              !.transformResult = Undefined,
              !.transformSteps = INITIAL_STEPS]
  /\ UNCHANGED <<data, dict, result, pc, rules, merged, firstResult, calls>>
  /\ UNCHANGED validatorVars
  /\ UNCHANGED pending

\* removeFile(index): index counts from 0 and need not name a file.
removeFile ==
  /\ \E index \in 0..(MaxFiles - 1) :
       state' =
         [state EXCEPT
            !.uploadedFiles =
               [i \in 1..(Len(@) - (IF index < Len(@) THEN 1 ELSE 0)) |->
                  IF i <= index THEN @[i] ELSE @[i + 1]],
            !.parsedData = Undefined,
            !.validationResult = Undefined,
            !.transformResult = Undefined,
            !.transformSteps = INITIAL_STEPS]
  /\ UNCHANGED <<data, dict, result, pc, rules, merged, firstResult, calls>>
  /\ UNCHANGED validatorVars
  /\ UNCHANGED pending

clearFiles ==
  /\ state' =
       [state EXCEPT
          !.uploadedFiles = <<>>,
          !.parsedData = Undefined,
          !.validationResult = Undefined,
          !.transformResult = Undefined,
          !.transformSteps = INITIAL_STEPS,
          !.activeStep = 0]
  /\ UNCHANGED <<data, dict, result, pc, rules, merged, firstResult, calls>>
  /\ UNCHANGED validatorVars
  /\ UNCHANGED pending

\* parseAndValidate(): the call keeps the uploadedFiles of the render it was
\* made in, reads them, and then sets parsedData and validationResult; with
\* no file to read it reaches its setState without an await.
parseAndValidate ==
  /\ \/ /\ state.uploadedFiles = <<>>
        /\ state' =
             [state EXCEPT
                !.parsedData = Some(parseUploaded(<<>>)),
                !.validationResult =
                   Some(validateParsedData(parseUploaded(<<>>))),
                !.activeStep = 1]
        /\ UNCHANGED pending
     \/ /\ state.uploadedFiles # <<>>
        /\ Cardinality(pending) < MaxPending
        /\ pending' = pending \cup
             {[call |-> "parseAndValidate", at |-> 0,
               uploaded |-> state.uploadedFiles,
               parsedData |-> NoData, result |-> NoResult]}
        /\ UNCHANGED state
     \/ \E p \in pending :
          /\ p.call = "parseAndValidate"
          /\ state' =
               [state EXCEPT
                  !.parsedData = Some(parseUploaded(p.uploaded)),
                  !.validationResult =
                     Some(validateParsedData(parseUploaded(p.uploaded))),
                  !.activeStep = 1]
          /\ pending' = pending \ {p}
  /\ UNCHANGED <<data, dict, result, pc, rules, merged, firstResult, calls>>
  /\ UNCHANGED validatorVars

\* runTransform(): the call keeps the parsedData of the render it was made
\* in and waits on three timers (200, 150 and 100 ms); at is the timer the
\* call is suspended at.
runTransform ==
  /\ \/ /\ state.parsedData # Undefined
        /\ Cardinality(pending) < MaxPending
        /\ state' =
             [state EXCEPT
                !.isTransforming = TRUE,
                !.transformResult = Undefined,
                !.transformSteps =
                   updateStep(updateStep(INITIAL_STEPS, 0, "complete"),
                              1, "complete"),
                !.activeStep = 2]
        /\ pending' = pending \cup
             {[call |-> "runTransform", at |-> 200, uploaded |-> <<>>,
               parsedData |-> state.parsedData[1], result |-> NoResult]}
     \/ \E p \in pending :
          /\ p.call = "runTransform"
          /\ p.at = 200
          /\ state' =
               [state EXCEPT
                  !.transformSteps = updateStep(@, 2, "running")]
          /\ pending' = (pending \ {p}) \cup {[p EXCEPT !.at = 150]}
     \/ \E p \in pending :
          /\ p.call = "runTransform"
          /\ p.at = 150
          /\ state' =
               [state EXCEPT
                  !.transformSteps =
                     [i \in 1..8 |-> IF i \in 3..7 THEN "complete" ELSE @[i]]]
          /\ pending' = (pending \ {p})
               \cup {[p EXCEPT !.at = 100, !.result = transform(p.parsedData)]}
     \/ \E p \in pending :
          /\ p.call = "runTransform"
          /\ p.at = 100
          /\ LET hasErrors == Len(p.result.errors) > 0
             IN state' =
                  [state EXCEPT
                     !.transformSteps =
                        updateStep(@, 7, IF hasErrors THEN "error"
                                         ELSE "complete"),
                     !.isTransforming = FALSE,
                     !.transformResult = Some(p.result),
                     !.activeStep = IF hasErrors THEN 2 ELSE 3]
          /\ pending' = pending \ {p}
  /\ UNCHANGED <<data, dict, result, pc, rules, merged, firstResult, calls>>
  /\ UNCHANGED validatorVars

setActiveStep ==
  /\ \E step \in 0..3 : state' = [state EXCEPT !.activeStep = step]
  /\ UNCHANGED <<data, dict, result, pc, rules, merged, firstResult, calls>>
  /\ UNCHANGED validatorVars
  /\ UNCHANGED pending

reset ==
  /\ state' = initialState
  /\ UNCHANGED <<data, dict, result, pc, rules, merged, firstResult, calls>>
  /\ UNCHANGED validatorVars
  /\ UNCHANGED pending

----------------------------------------------------------------------------
(* Specification SpecPipeline: the callbacks of the hook in any order       *)

InitPipeline ==
  /\ state = initialState
  /\ pending = {}
  /\ data = NoData
  /\ dict = NoDictionary
  /\ result = NoResult
  /\ pc = "idle"
  /\ rules = <<>>
  /\ merged = <<>>
  /\ firstResult = NoResult
  /\ calls = 0
  /\ validatorIdle

NextPipeline ==
  \/ addFiles
  \/ removeFile
  \/ clearFiles
  \/ parseAndValidate
  \/ runTransform
  \/ setActiveStep
  \/ reset

SpecPipeline == InitPipeline /\ [][NextPipeline]_vars

----------------------------------------------------------------------------
(* Claims                                                                  *)

collectionsEmpty(r) ==
  /\ r.catalogs = <<>>
  /\ r.recipes = <<>>
  /\ r.events = <<>>
  /\ r.specs = <<>>
  /\ r.mixes = <<>>

\* C1: transform returns all five collections empty and a non-empty errors
\* list when schemes or schemeLines is empty; when both are non-empty errors
\* is empty and the output is not empty, whatever the periods, preferences
\* and mix rows are.
C1_ErrorsOnlyForMissingSchemesOrLines ==
  pc = "done" =>
    IF Len(data.schemes) = 0 \/ Len(data.schemeLines) = 0
    THEN collectionsEmpty(result) /\ Len(result.errors) > 0
    ELSE result.errors = <<>> /\ ~collectionsEmpty(result)

\* The error path taken although preferences and mix rows are present.
C1_Witness ==
  /\ pc = "done"
  /\ Len(data.schemes) > 0
  /\ Len(data.schemeLines) = 0
  /\ Len(data.preferences) > 0
  /\ Len(data.mixRows) > 0
  /\ Len(result.errors) > 0

\* C2: no two recipes of one run share (locationCode, schemeCode, startWeek,
\* endWeek).
C2_RecipeKeysUnique ==
  \A i, j \in 1..Len(result.recipes) :
    i # j =>
      <<result.recipes[i].locationCode, result.recipes[i].schemeCode,
        result.recipes[i].startWeek, result.recipes[i].endWeek>>
      # <<result.recipes[j].locationCode, result.recipes[j].schemeCode,
          result.recipes[j].startWeek, result.recipes[j].endWeek>>

\* Two preference rows name the same location and a scheme that has recipes.
C2_Witness ==
  /\ pc = "done"
  /\ \E i, j \in 1..Len(data.preferences) :
       /\ i < j
       /\ data.preferences[i].locationCode = data.preferences[j].locationCode
       /\ data.preferences[i].schemeCode = data.preferences[j].schemeCode
       /\ data.preferences[i].productionItemNo # data.preferences[j].productionItemNo
       /\ \E k \in 1..Len(result.recipes) :
            /\ result.recipes[k].locationCode = data.preferences[i].locationCode
            /\ result.recipes[k].schemeCode = data.preferences[i].schemeCode

\* C3: every segment mergeGrowAndSpace returns lies inside an input rule of
\* phase GROW.
C3_SegmentsCoveredByGrow ==
  pc = "done" =>
    \A i \in 1..Len(merged) :
      \E j \in 1..Len(rules) :
        /\ rules[j].phase = "GROW"
        /\ rules[j].startWeek <= merged[i].startWeek
        /\ merged[i].endWeek <= rules[j].endWeek

\* A SPACE rule opens at week 1 with no GROW rule over it: its segment is
\* dropped, a later segment is emitted.
C3_Witness ==
  /\ pc = "done"
  /\ Len(merged) >= 1
  /\ merged[1].startWeek > 1
  /\ \E j \in 1..Len(rules) :
       /\ rules[j].phase = "SPACE"
       /\ rules[j].startWeek = 1
       /\ rules[j].endWeek >= 1

\* C4: every event lies inside the window of the recipe it names:
\* recipe.startWeek <= event.startWeek <= event.endWeek <= recipe.endWeek.
C4_EventInsideRecipeWindow ==
  \A e \in 1..Len(result.events) :
    /\ \E r \in 1..Len(result.recipes) :
         result.recipes[r].id = result.events[e].recipeId
    /\ \A r \in 1..Len(result.recipes) :
         result.recipes[r].id = result.events[e].recipeId =>
           /\ result.recipes[r].startWeek <= result.events[e].startWeek
           /\ result.events[e].startWeek <= result.events[e].endWeek
           /\ result.events[e].endWeek <= result.recipes[r].endWeek

\* An event of a rule that starts before the recipe's window does.
C4_Witness ==
  /\ pc = "done"
  /\ \E e \in 1..Len(result.events) :
       \E r \in 1..Len(result.recipes) :
         /\ result.recipes[r].id = result.events[e].recipeId
         /\ \E k \in 1..Len(dict[result.recipes[r].schemeCode]) :
              LET rule == dict[result.recipes[r].schemeCode][k]
              IN /\ rule.phase = result.events[e].phase
                 /\ rule.startWeek < result.recipes[r].startWeek
                 /\ rule.endWeek >= result.recipes[r].endWeek

firstIdIsOne(collection) == collection = <<>> \/ collection[1].id = 1

roundHalfUp(n, d) ==
  CHOOSE r \in -(n * n + 1)..(n * n + 1) :
    (2 * r - 1) * d <= 2 * n /\ 2 * n < (2 * r + 1) * d

\* The period rows with the scheme code, line number and phase of a line.
matchingPeriods(d, line) ==
  {m \in 1..Len(d.schemeLinePeriods) :
     /\ d.schemeLinePeriods[m].schemeCode = line.schemeCode
     /\ d.schemeLinePeriods[m].lineNo = line.lineNo
     /\ d.schemeLinePeriods[m].phase = line.phase}

\* How many rules a line is to contribute: one, or one per matching period.
contribution(d, line) ==
  IF matchingPeriods(d, line) = {} THEN 1
  ELSE Cardinality(matchingPeriods(d, line))

\* The rules contributed by the lines of the same scheme before line i.
RECURSIVE offsetOfLine(_, _, _)
offsetOfLine(d, i, j) ==
  IF j >= i THEN 0
  ELSE (IF d.schemeLines[j].schemeCode = d.schemeLines[i].schemeCode
        THEN contribution(d, d.schemeLines[j]) ELSE 0)
       + offsetOfLine(d, i, j + 1)

\* The rules all lines of one scheme are to contribute.
RECURSIVE contributionOfScheme(_, _, _)
contributionOfScheme(d, code, j) ==
  IF j > Len(d.schemeLines) THEN 0
  ELSE (IF d.schemeLines[j].schemeCode = code
        THEN contribution(d, d.schemeLines[j]) ELSE 0)
       + contributionOfScheme(d, code, j + 1)

lineCodes(d) == {d.schemeLines[i].schemeCode : i \in 1..Len(d.schemeLines)}

schemeHasPeriods(d, code) ==
  \E m \in 1..Len(d.schemeLinePeriods) : d.schemeLinePeriods[m].schemeCode = code

\* C6 as stated: a scheme with lines and no period rows has exactly one rule,
\* {1, 53, round(duration)}.
C6_OneRulePerScheme ==
  pc = "done" =>
    \A code \in DOMAIN dict :
      ~schemeHasPeriods(data, code) =>
        /\ Len(dict[code]) = 1
        /\ dict[code][1].startWeek = 1
        /\ dict[code][1].endWeek = 53
        /\ \E i \in 1..Len(data.schemeLines) :
             /\ data.schemeLines[i].schemeCode = code
             /\ dict[code][1].growWeeks =
                  roundHalfUp(data.schemeLines[i].duration, Scale)

\* C6 amended: a scheme with lines and no period rows has exactly one rule per
\* line, and every line without matching period rows contributes, at its
\* place in line order, the one rule {1, 53, round(duration)} of its phase.
C6_OneRulePerLine ==
  pc = "done" =>
    \A code \in DOMAIN dict :
      /\ Len(dict[code]) = contributionOfScheme(data, code, 1)
      /\ ~schemeHasPeriods(data, code) =>
           Len(dict[code]) = Cardinality({i \in 1..Len(data.schemeLines) :
                                            data.schemeLines[i].schemeCode = code})
      /\ \A i \in 1..Len(data.schemeLines) :
           (data.schemeLines[i].schemeCode = code
              /\ matchingPeriods(data, data.schemeLines[i]) = {}) =>
             dict[code][offsetOfLine(data, i, 1) + 1] =
               [startWeek |-> 1,
                endWeek |-> 53,
                growWeeks |-> roundHalfUp(data.schemeLines[i].duration, Scale),
                phase |-> data.schemeLines[i].phase]

\* A scheme with two lines of different phases and no period rows.
C6_Witness ==
  /\ pc = "done"
  /\ \E code \in DOMAIN dict :
       /\ ~schemeHasPeriods(data, code)
       /\ Len(dict[code]) = 2
       /\ dict[code][1].phase # dict[code][2].phase
       /\ dict[code][1].growWeeks # dict[code][2].growWeeks

\* The place of period row m among the matching rows M in ascending periodNo
\* order, rows of equal periodNo in input order.
rankIn(d, M, m) ==
  1 + Cardinality({n \in M :
        \/ d.schemeLinePeriods[n].periodNo < d.schemeLinePeriods[m].periodNo
        \/ /\ d.schemeLinePeriods[n].periodNo = d.schemeLinePeriods[m].periodNo
           /\ n < m})

\* C7: a line with k >= 1 matching period rows contributes exactly k rules in
\* ascending periodNo order; the rule of a period starts at its periodNo, ends
\* one week before the next periodNo or at week 53, and has growWeeks =
\* round(days / 7); period rows that match no line contribute nothing.
C7_PeriodRules ==
  pc = "done" =>
    /\ (result.errors = <<>> => DOMAIN dict = lineCodes(data))
    /\ \A code \in DOMAIN dict :
         /\ Len(dict[code]) = contributionOfScheme(data, code, 1)
         /\ \A i \in 1..Len(data.schemeLines) :
              data.schemeLines[i].schemeCode = code =>
                LET M == matchingPeriods(data, data.schemeLines[i])
                    base == offsetOfLine(data, i, 1)
                IN \A m \in M :
                     LET r == rankIn(data, M, m)
                         rule == dict[code][base + r]
                     IN /\ rule.startWeek = data.schemeLinePeriods[m].periodNo
                        /\ rule.growWeeks =
                             roundHalfUp(data.schemeLinePeriods[m].days, 7 * Scale)
                        /\ rule.phase = data.schemeLines[i].phase
                        /\ r = Cardinality(M) => rule.endWeek = 53
                        /\ \A n \in M :
                             rankIn(data, M, n) = r + 1 =>
                               rule.endWeek = data.schemeLinePeriods[n].periodNo - 1

\* A line whose two matching period rows arrive in descending periodNo order,
\* next to a period row that matches no line.
C7_Witness ==
  /\ pc = "done"
  /\ \E i \in 1..Len(data.schemeLines) :
       \E m, n \in matchingPeriods(data, data.schemeLines[i]) :
         /\ m < n
         /\ data.schemeLinePeriods[m].periodNo > data.schemeLinePeriods[n].periodNo
  /\ \E m \in 1..Len(data.schemeLinePeriods) :
       \A i \in 1..Len(data.schemeLines) :
         m \notin matchingPeriods(data, data.schemeLines[i])
  /\ data.schemeLines[1].schemeCode \in DOMAIN dict

periodNumbersInRange(d) ==
  \A m \in 1..Len(d.schemeLinePeriods) :
    d.schemeLinePeriods[m].periodNo \in 1..53

windowInYear(x) ==
  1 <= x.startWeek /\ x.startWeek <= x.endWeek /\ x.endWeek <= 53

\* C8 as stated: with all period numbers in 1..53, every rule of the
\* dictionary, every recipe and every event has 1 <= startWeek <= endWeek <= 53.
C8_AllWindowsInYear ==
  (pc = "done" /\ periodNumbersInRange(data)) =>
    /\ \A code \in DOMAIN dict :
         \A k \in 1..Len(dict[code]) : windowInYear(dict[code][k])
    /\ \A k \in 1..Len(result.recipes) : windowInYear(result.recipes[k])
    /\ \A k \in 1..Len(result.events) : windowInYear(result.events[k])

\* Two period rows of one (schemeCode, lineNo, phase) group with period number w.
sharedPeriodNo(d, code, phase, w) ==
  \E m, n \in 1..Len(d.schemeLinePeriods) :
    /\ m # n
    /\ d.schemeLinePeriods[m].schemeCode = code
    /\ d.schemeLinePeriods[n].schemeCode = code
    /\ d.schemeLinePeriods[m].lineNo = d.schemeLinePeriods[n].lineNo
    /\ d.schemeLinePeriods[m].phase = phase
    /\ d.schemeLinePeriods[n].phase = phase
    /\ d.schemeLinePeriods[m].periodNo = w
    /\ d.schemeLinePeriods[n].periodNo = w

\* C8 amended: with all period numbers in 1..53, every recipe and every event
\* has 1 <= startWeek <= endWeek <= 53, and every rule of the dictionary has
\* 1 <= startWeek <= 53 and startWeek - 1 <= endWeek <= 53, the empty window
\* endWeek = startWeek - 1 only where two period rows of the rule's group
\* share its period number.
C8_WindowsInYearUpToSharedPeriods ==
  (pc = "done" /\ periodNumbersInRange(data)) =>
    /\ \A code \in DOMAIN dict :
         \A k \in 1..Len(dict[code]) :
           LET rule == dict[code][k]
           IN /\ 1 <= rule.startWeek
              /\ rule.startWeek <= 53
              /\ rule.startWeek - 1 <= rule.endWeek
              /\ rule.endWeek <= 53
              /\ rule.startWeek <= rule.endWeek
                   \/ sharedPeriodNo(data, code, rule.phase, rule.startWeek)
    /\ \A k \in 1..Len(result.recipes) : windowInYear(result.recipes[k])
    /\ \A k \in 1..Len(result.events) : windowInYear(result.events[k])

\* Period numbers in range, a rule with an empty window in the dictionary,
\* and a recipe with an event next to it.
C8_Witness ==
  /\ pc = "done"
  /\ periodNumbersInRange(data)
  /\ Len(data.schemeLinePeriods) >= 2
  /\ \E code \in DOMAIN dict :
       \E k \in 1..Len(dict[code]) : dict[code][k].endWeek < dict[code][k].startWeek
  /\ Len(result.recipes) >= 1
  /\ Len(result.events) >= 1

unknownSchemePrefs(d) ==
  SelectSeq(d.preferences, LAMBDA f : f.schemeCode \notin lineCodes(d))

noRulesWarnings(d) ==
  {"No rules found for scheme: " \o d.preferences[i].schemeCode :
     i \in 1..Len(d.preferences)}

\* C9: the dictionary has an entry exactly for the scheme codes of the
\* SchemeLine rows; every preference row of another scheme code adds exactly
\* one warning and no recipe, the rows after it are still processed, and
\* errors stays empty.
C9_UnknownSchemeWarnsAndContinues ==
  (pc = "done" /\ Len(data.schemes) > 0 /\ Len(data.schemeLines) > 0) =>
    /\ DOMAIN dict = lineCodes(data)
    /\ result.errors = <<>>
    /\ LET unknown == unknownSchemePrefs(data)
       IN /\ Len(result.warnings) >= Len(unknown)
          /\ \A k \in 1..Len(unknown) :
               result.warnings[k] =
                 "No rules found for scheme: " \o unknown[k].schemeCode
          /\ \A k \in (Len(unknown) + 1)..Len(result.warnings) :
               result.warnings[k] \notin noRulesWarnings(data)
    /\ \A k \in 1..Len(result.recipes) :
         result.recipes[k].schemeCode \in lineCodes(data)
    /\ \A i \in 1..Len(data.preferences) :
         data.preferences[i].schemeCode \in DOMAIN dict =>
           LET segments == mergeGrowAndSpace(dict[data.preferences[i].schemeCode])
           IN \A g \in 1..Len(segments) :
                \E k \in 1..Len(result.recipes) :
                  /\ result.recipes[k].locationCode = data.preferences[i].locationCode
                  /\ result.recipes[k].schemeCode = data.preferences[i].schemeCode
                  /\ result.recipes[k].startWeek = segments[g].startWeek
                  /\ result.recipes[k].endWeek = segments[g].endWeek

\* A preference row of an unknown scheme, then one with rules and a recipe.
C9_Witness ==
  /\ pc = "done"
  /\ Len(data.preferences) >= 2
  /\ data.preferences[1].schemeCode \notin lineCodes(data)
  /\ data.preferences[2].schemeCode \in DOMAIN dict
  /\ Len(result.recipes) >= 1
  /\ Len(result.warnings) = 1

idsCountFromOne(collection) ==
  \A k \in 1..Len(collection) : collection[k].id = k

\* The first preference row with the location and scheme of a recipe.
firstPrefOf(d, recipe) ==
  CHOOSE i \in 1..Len(d.preferences) :
    /\ d.preferences[i].locationCode = recipe.locationCode
    /\ d.preferences[i].schemeCode = recipe.schemeCode
    /\ \A j \in 1..(i - 1) :
         ~(/\ d.preferences[j].locationCode = recipe.locationCode
           /\ d.preferences[j].schemeCode = recipe.schemeCode)

\* C10: in catalogs, recipes, events, specs and mixes the k-th record has id
\* k; recipes come in preference-row order and, within a row, in ascending
\* segment order.
C10_IdsSequential ==
  /\ idsCountFromOne(result.catalogs)
  /\ idsCountFromOne(result.recipes)
  /\ idsCountFromOne(result.events)
  /\ idsCountFromOne(result.specs)
  /\ idsCountFromOne(result.mixes)
  /\ \A i, j \in 1..Len(result.recipes) :
       i < j =>
         LET fi == firstPrefOf(data, result.recipes[i])
             fj == firstPrefOf(data, result.recipes[j])
         IN \/ fi < fj
            \/ fi = fj /\ result.recipes[i].startWeek < result.recipes[j].startWeek

\* A mix segment is dropped with a warning before two mixes are emitted.
C10_Witness ==
  /\ pc = "done"
  /\ Len(result.recipes) >= 1
  /\ Len(result.mixes) >= 2
  /\ Len(data.mixRows) >= 2
  /\ data.mixRows[1].productionItem = "I9"
  /\ Len(result.warnings) >= 1

----------------------------------------------------------------------------
(* Claims on the mix breakout                                              *)

\* The populated week before w in the weekly map M, or 0.
previousPopulated(M, w) ==
  LET before == {v \in DOMAIN M : v < w}
  IN IF before = {} THEN 0 ELSE CHOOSE v \in before : \A u \in before : u <= v

\* The weeks that open a run: the first populated week, and every populated
\* week whose percentage differs from that of the populated week before it.
runStarts(M) ==
  {w \in DOMAIN M :
     \/ previousPopulated(M, w) = 0
     \/ M[previousPopulated(M, w)] # M[w]}

\* The last populated week of the run that opens at s.
runEnd(M, s) ==
  LET later == {e \in DOMAIN M :
                  /\ e >= s
                  /\ \A v \in DOMAIN M : (s <= v /\ v <= e) => M[v] = M[s]}
  IN CHOOSE e \in later : \A u \in later : u <= e

\* Some recipe of the list has the location and the item and covers the week.
someRecipeFor(recipes, location, productionItem, week) ==
  \E k \in 1..Len(recipes) :
    /\ recipes[k].locationCode = location
    /\ recipes[k].series = productionItem
    /\ recipes[k].startWeek <= week
    /\ week <= recipes[k].endWeek

C12_MixWeeksPopulated ==
  pc = "done" =>
    \A k \in 1..Len(result.mixes) :
      \A w \in result.mixes[k].startWeek..result.mixes[k].endWeek :
        /\ w \in DOMAIN data.mixRows[1].weeklyPcts
        /\ data.mixRows[1].weeklyPcts[w] = result.mixes[k].mixPct

\* The recipes of the list with the location and the item that cover the week.
matchingRecipes(recipes, location, productionItem, week) ==
  {k \in 1..Len(recipes) :
     /\ recipes[k].locationCode = location
     /\ recipes[k].series = productionItem
     /\ recipes[k].startWeek <= week
     /\ week <= recipes[k].endWeek}

\* The earliest of the narrowest recipes among the indices K (K not empty).
earliestNarrowest(recipes, K) ==
  CHOOSE k \in K :
    \A j \in K :
      LET wk == recipes[k].endWeek - recipes[k].startWeek
          wj == recipes[j].endWeek - recipes[j].startWeek
      IN wk < wj \/ (wk = wj /\ k <= j)

\* The warning generateMixes gives for a segment without recipe.
noRecipeWarning(row, week) ==
  "No recipe found for " \o row.location \o "/" \o row.productionItem
    \o " week " \o ToString(week)

\* C13: for every week, pickBestRecipe on the emitted recipes returns the
\* earliest of the narrowest recipes with the row's location and item that
\* cover the week, and nothing exactly when there is none; each segment
\* without such a recipe gives one warning and no mix, each other segment a
\* mix that refers to that recipe.
C13_NarrowestRecipeOrWarning ==
  pc = "done" =>
    LET row == data.mixRows[1]
        M == row.weeklyPcts
        segments == SortedSeqOfSet({w \in runStarts(M) : M[w] > 0})
        K(w) == matchingRecipes(result.recipes, row.location,
                                row.productionItem, w)
        dropped == {i \in 1..Len(segments) : K(segments[i]) = {}}
    IN /\ \A w \in 1..LastWeek :
            LET best == pickBestRecipe(result.recipes, row.location,
                                       row.productionItem, w)
            IN /\ (best = Undefined) <=> (K(w) = {})
               /\ K(w) # {} =>
                    best = Some(result.recipes[earliestNarrowest(result.recipes, K(w))])
       /\ Len(result.warnings) = Cardinality(dropped)
       /\ \A i \in dropped :
            /\ \E n \in 1..Len(result.warnings) :
                 result.warnings[n] = noRecipeWarning(row, segments[i])
            /\ \A k \in 1..Len(result.mixes) :
                 result.mixes[k].startWeek # segments[i]
       /\ \A i \in (1..Len(segments)) \ dropped :
            \E k \in 1..Len(result.mixes) :
              /\ result.mixes[k].startWeek = segments[i]
              /\ result.mixes[k].recipeId
                   = result.recipes[earliestNarrowest(result.recipes,
                                                      K(segments[i]))].id

\* Several recipes covered the start of a segment and the mix refers to a
\* narrower recipe that is not the first of the list.
C13_Witness ==
  /\ pc = "done"
  /\ Len(result.recipes) >= 3
  /\ Len(result.mixes) >= 1
  /\ \E k \in 1..Len(result.mixes) :
       /\ result.mixes[k].recipeId > 1
       /\ Cardinality(matchingRecipes(result.recipes, data.mixRows[1].location,
                        data.mixRows[1].productionItem,
                        result.mixes[k].startWeek)) >= 2

\* The catalogs whose genus, series and color equal the three, ignoring case.
exactCatalogs(catalogs, genus, series, color) ==
  {c \in 1..Len(catalogs) :
     /\ toLowerCase(catalogs[c].genus) = toLowerCase(genus)
     /\ toLowerCase(catalogs[c].series) = toLowerCase(series)
     /\ toLowerCase(catalogs[c].color) = toLowerCase(color)}

\* The catalogs whose genus equals the genus, ignoring case.
genusCatalogs(catalogs, genus) ==
  {c \in 1..Len(catalogs) : toLowerCase(catalogs[c].genus) = toLowerCase(genus)}

\* C14: the catalogId of every emitted mix is the id of the catalog that
\* equals (recipe.genus, productionItem, variantCode) ignoring case (the last
\* such catalog when several do), otherwise the id of the first catalog of
\* the recipe's genus ignoring case, otherwise 0; note is "OK" exactly when
\* catalogId # 0 and "No Catalog" exactly when catalogId = 0.
C14_MixCatalogResolution ==
  pc = "done" =>
    \A k \in 1..Len(result.mixes) :
      LET mix == result.mixes[k]
          row == data.mixRows[1]
          recipe == result.recipes[mix.recipeId]
          exact == exactCatalogs(result.catalogs, recipe.genus,
                                 row.productionItem, row.variantCode)
          same == genusCatalogs(result.catalogs, recipe.genus)
      IN /\ recipe.id = mix.recipeId
         /\ exact # {} =>
              mix.catalogId
                = result.catalogs[CHOOSE c \in exact : \A e \in exact : e <= c].id
         /\ (exact = {} /\ same # {}) =>
              mix.catalogId
                = result.catalogs[CHOOSE c \in same : \A e \in same : c <= e].id
         /\ (exact = {} /\ same = {}) => mix.catalogId = 0
         /\ (mix.note = "OK") <=> (mix.catalogId # 0)
         /\ (mix.note = "No Catalog") <=> (mix.catalogId = 0)

\* A mix resolved by the genus fallback among two catalogs whose genus differs
\* by case only.
C14_Witness ==
  /\ pc = "done"
  /\ Len(result.catalogs) = 2
  /\ \E k \in 1..Len(result.mixes) :
       LET recipe == result.recipes[result.mixes[k].recipeId]
       IN /\ exactCatalogs(result.catalogs, recipe.genus,
                           data.mixRows[1].productionItem,
                           data.mixRows[1].variantCode) = {}
          /\ Cardinality(genusCatalogs(result.catalogs, recipe.genus)) = 2
          /\ result.mixes[k].catalogId = 1
          /\ result.mixes[k].note = "OK"

----------------------------------------------------------------------------
(* Claims on the catalog reference of a recipe                             *)

\* The scheme rows that carry the code.
schemeRowsOf(d, code) == {i \in 1..Len(d.schemes) : d.schemes[i].code = code}

\* C15: a recipe's catalogId is set only when its scheme code has a Scheme
\* row and a catalog was derived for that row's genus, and is then the id of
\* that catalog; a recipe whose scheme code has no Scheme row has catalogId
\* undefined.
C15_CatalogIdOnlyFromOwnScheme ==
  pc = "done" =>
    \A k \in 1..Len(result.recipes) :
      LET recipe == result.recipes[k]
          rows == schemeRowsOf(data, recipe.schemeCode)
      IN /\ rows = {} => recipe.catalogId = Undefined
         /\ recipe.catalogId # Undefined =>
              /\ rows # {}
              /\ \E i \in rows :
                   \E c \in 1..Len(result.catalogs) :
                     /\ result.catalogs[c].genus = data.schemes[i].genusCode
                     /\ result.catalogs[c].id = recipe.catalogId[1]

----------------------------------------------------------------------------
(* Claims on the validation                                                *)

\* C16: qualityScore = max(0, min(100, 100 - 25 e - 5 w)) with e and w the
\* numbers of error and warning issues of the returned list; info issues do
\* not change the score, which is an integer in 0..100.
C16_QualityScoreFormula ==
  validation # <<>> =>
    LET v == validation[1]
        e == Cardinality({i \in 1..Len(v.issues) : v.issues[i].severity = "error"})
        w == Cardinality({i \in 1..Len(v.issues) : v.issues[i].severity = "warning"})
        raw == 100 - 25 * e - 5 * w
    IN /\ v.qualityScore = (IF raw < 0 THEN 0 ELSE IF raw > 100 THEN 100 ELSE raw)
       /\ v.qualityScore \in 0..100
       /\ \A i \in 1..Len(v.issues) :
            v.issues[i].severity \in {"error", "warning", "info"}

\* A validation with errors, warnings and info issues together.
C16_Witness ==
  /\ validation # <<>>
  /\ \E i, j, k \in 1..Len(validation[1].issues) :
       /\ validation[1].issues[i].severity = "error"
       /\ validation[1].issues[j].severity = "warning"
       /\ validation[1].issues[k].severity = "info"
  /\ validation[1].qualityScore = 65

\* No scheme, no scheme line and no preference in the input.
nothingToTransform(d) ==
  Len(d.schemes) = 0 /\ Len(d.schemeLines) = 0 /\ Len(d.preferences) = 0

errorsOf(v) == {i \in 1..Len(v.issues) : v.issues[i].severity = "error"}

\* C17 as stated: with zero schemes, zero scheme lines and zero preferences
\* the validation has exactly 3 errors, qualityScore 0 and canTransform false.
C17_ThreeErrorsScoreZero ==
  (validation # <<>> /\ nothingToTransform(data)) =>
    /\ Cardinality(errorsOf(validation[1])) = 3
    /\ validation[1].qualityScore = 0
    /\ validation[1].canTransform = FALSE

\* C17 amended: with zero schemes, zero scheme lines and zero preferences the
\* validation has exactly 3 errors, canTransform false, and qualityScore
\* 25 - 5 w, where w counts one warning when there are no period rows and one
\* when a mix row names a location: 15, 20 or 25, never 0.
C17_ThreeErrorsScoreFromWarnings ==
  (validation # <<>> /\ nothingToTransform(data)) =>
    LET v == validation[1]
        w == (IF Len(data.schemeLinePeriods) = 0 THEN 1 ELSE 0)
               + (IF \E i \in 1..Len(data.mixRows) : data.mixRows[i].location # ""
                  THEN 1 ELSE 0)
    IN /\ Cardinality(errorsOf(v)) = 3
       /\ v.canTransform = FALSE
       /\ v.isValid = FALSE
       /\ v.qualityScore = 25 - 5 * w
       /\ v.qualityScore \in {15, 20, 25}

\* Nothing to transform, with period rows and mix rows present, validated.
C17_Witness ==
  /\ validation # <<>>
  /\ nothingToTransform(data)
  /\ Len(data.schemeLinePeriods) >= 1
  /\ Len(data.mixRows) >= 1
  /\ validation[1].qualityScore = 20

\* C18: canTransform is true exactly when the input has at least one scheme
\* and at least one scheme line, whatever isValid, the issues and the score
\* are; and exactly when transform on the same input returns no errors.
C18_CanTransformIffNoTransformErrors ==
  /\ validation # <<>> =>
       (validation[1].canTransform
          <=> (Len(data.schemes) >= 1 /\ Len(data.schemeLines) >= 1))
  /\ pc = "done" =>
       (validation[1].canTransform <=> (result.errors = <<>>))

\* An input without preferences was validated (not valid, yet transformable)
\* and transformed without errors.
C18_Witness ==
  /\ pc = "done"
  /\ Len(data.preferences) = 0
  /\ validation[1].canTransform
  /\ ~validation[1].isValid
  /\ result.errors = <<>>
  /\ Len(result.catalogs) >= 1

----------------------------------------------------------------------------
(* Claims on the comparison                                                *)

\* The rows of a sequence with at least one non-empty key field.
keyedRows(rows, keyFields) ==
  {i \in 1..Len(rows) :
     \E j \in 1..Len(keyFields) : trim(fieldOr(rows[i], keyFields[j])) # ""}

\* The composite keys of the rows with a non-empty key.
keySet(rows, keyFields) ==
  {buildKey(rows[i], keyFields) : i \in keyedRows(rows, keyFields)}

\* The last row of the sequence with the key.
lastRowWithKey(rows, keyFields, key) ==
  LET hits == {i \in keyedRows(rows, keyFields) : buildKey(rows[i], keyFields) = key}
  IN rows[CHOOSE i \in hits : \A j \in hits : j <= i]

\* C19: with S the keys of the generated rows and R those of the normalized
\* reference rows (rows with an entirely empty key in neither, equal keys
\* collapsed), the result has exactly one row per key of S \cup R; a row is
\* added iff its key is in S only, removed iff in R only, matched or changed
\* iff in both, changed iff a compare field differs, and only changed rows
\* carry diffs; the counts are those of the sets.
C19_OneResultRowPerKey ==
  comparison # <<>> =>
    LET c == comparison[1]
        cfg == COMPARE_CONFIGS.specs
        src == sourceRowsOf(sourceData)
        ref == normalizeHeaders(compareFile.rows, compareFile.headers, cfg)
        S == keySet(src, cfg.keyFields)
        R == keySet(ref, cfg.keyFields)
    IN /\ {c.rows[i].key : i \in 1..Len(c.rows)} = S \cup R
       /\ Len(c.rows) = Cardinality(S \cup R)
       /\ \A i \in 1..Len(c.rows) :
            LET row == c.rows[i]
            IN /\ (row.status = "added") <=> (row.key \in S \ R)
               /\ (row.status = "removed") <=> (row.key \in R \ S)
               /\ (row.status \in {"matched", "changed"}) <=> (row.key \in S \cap R)
               /\ row.key \in S \cap R =>
                    ((row.status = "changed") <=>
                       \E j \in 1..Len(cfg.compareFields) :
                         fieldDiffers(lastRowWithKey(src, cfg.keyFields, row.key),
                                      lastRowWithKey(ref, cfg.keyFields, row.key),
                                      cfg.compareFields[j]))
               /\ (row.diffs # <<>>) <=> (row.status = "changed")
       /\ c.matched + c.changed = Cardinality(S \cap R)
       /\ c.added = Cardinality(S \ R)
       /\ c.removed = Cardinality(R \ S)
       /\ c.totalSource = Cardinality(S)
       /\ c.totalCompare = Cardinality(R)

\* A comparison under renamed headers where two rows of each side come
\* down to one key and the one result row is changed.
C19_Witness ==
  /\ comparison # <<>>
  /\ compareFile.headers[1] = "Recipe ID"
  /\ Len(sourceData) = 2
  /\ comparison[1].totalSource = 1
  /\ Len(compareFile.rows) = 2
  /\ comparison[1].totalCompare = 1
  /\ comparison[1].changed = 1
  /\ Len(comparison[1].rows) = 1

\* A header matches a field when the two are equal ignoring case, or equal
\* after also removing spaces, underscores and dots: the rule of
\* normalizeHeaders, which then maps the field to some header.
fieldHasHeader(headers, field) == headerFor(headers, field) # Undefined

\* The number of fields of the configuration that some header matches.
matchedFieldCount(headers, type) ==
  Cardinality({j \in 1..Len(allFields(COMPARE_CONFIGS[type])) :
                 fieldHasHeader(headers, allFields(COMPARE_CONFIGS[type])[j])})

\* C20: detectCompareType returns the configuration with the most fields
\* matched by some header under the rule of normalizeHeaders (equal ignoring
\* case, or equal without spaces, underscores and dots), the earliest in
\* COMPARE_CONFIGS order on equal scores, if that score is at least 2, and
\* null otherwise.
C20_DetectByNormalizedHeaders ==
  pc = "detected" =>
    LET headers == compareFile.headers
        best == CHOOSE k \in 1..Len(CompareTypes) :
                  \A j \in 1..Len(CompareTypes) :
                    LET sk == matchedFieldCount(headers, CompareTypes[k])
                        sj == matchedFieldCount(headers, CompareTypes[j])
                    IN sk > sj \/ (sk = sj /\ k <= j)
    IN IF matchedFieldCount(headers, CompareTypes[best]) >= 2
       THEN detected = Some(CompareTypes[best])
       ELSE detected = Undefined

----------------------------------------------------------------------------
(* Claims on the space specs                                               *)

\* The positions of the specs of one recipe, and of the lines of one scheme
\* that carry a positive quantity per area, each in ascending order.
specsOfRecipe(r, id) ==
  SelectSeq(r.specs, LAMBDA s : s.recipeId = id)

positiveLines(d, code) ==
  SelectSeq(d.schemeLines, LAMBDA l : l.schemeCode = code /\ l.qtyPerArea > 0)

\* w / 100 is sqrt(q / Scale) rounded to two decimals, halves up.
isSqrtToTwoDecimals(w, q) ==
  /\ w >= 0
  /\ (w = 0 \/ (2 * w - 1) * (2 * w - 1) * Scale <= 40000 * q)
  /\ 40000 * q < (2 * w + 1) * (2 * w + 1) * Scale

----------------------------------------------------------------------------
(* Claims on the end-to-end scenario                                       *)

\* The scenario input: one scheme row, one GROW line, one preference.
isScenario(d) ==
  /\ Len(d.schemes) = 1
  /\ d.schemes[1].code = ScenarioScheme
  /\ d.schemeLines =
       <<[schemeCode |-> ScenarioScheme, lineNo |-> "10000", phase |-> "GROW",
          duration |-> 6 * Scale, qtyPerArea |-> 4 * Scale]>>
  /\ d.schemeLinePeriods = <<>>
  /\ d.preferences =
       <<[productionItemNo |-> "4000084", variantCode |-> "B01",
          locationCode |-> "KY01", schemeCode |-> ScenarioScheme]>>

----------------------------------------------------------------------------
(* Claims on the merged segments                                           *)

\* Rule r spans the whole of segment m.
spans(r, m) == r.startWeek <= m.startWeek /\ m.endWeek <= r.endWeek

\* The first rule in input order that has phase GROW and spans m (0: none).
firstGrowOver(rs, m) ==
  LET hits == {j \in 1..Len(rs) : rs[j].phase = "GROW" /\ spans(rs[j], m)}
  IN IF hits = {} THEN 0 ELSE CHOOSE j \in hits : \A k \in hits : j <= k

\* The sum of growWeeks over the rules that span m and whose phase is
\* neither GROW nor INVENTORY.
additiveWeeks(rs, m) ==
  LET sum[k \in 0..Len(rs)] ==
        IF k = 0 THEN 0
        ELSE sum[k - 1]
             + (IF rs[k].phase \notin {"GROW", "INVENTORY"} /\ spans(rs[k], m)
                THEN rs[k].growWeeks ELSE 0)
  IN sum[Len(rs)]

----------------------------------------------------------------------------
(* Claims on the events                                                    *)

eventsOfRecipe(r, id) ==
  SelectSeq(r.events, LAMBDA e : e.recipeId = id)

\* The rules of the recipe's scheme that overlap its window, in the order of
\* the unmerged dictionary.
overlappingRules(dictionary, recipe) ==
  SelectSeq(dictionary[recipe.schemeCode],
            LAMBDA rule : /\ recipe.startWeek <= rule.endWeek
                          /\ recipe.endWeek >= rule.startWeek)

\* The growWeeks of the first GROW rule of rs that contains [a, b], else 0.
leadTime(rs, a, b) ==
  LET hits == {k \in 1..Len(rs) : /\ rs[k].phase = "GROW"
                                  /\ rs[k].startWeek <= a
                                  /\ b <= rs[k].endWeek}
  IN IF hits = {} THEN 0
     ELSE rs[CHOOSE k \in hits : \A l \in hits : k <= l].growWeeks

\* C24: the events of a recipe correspond one to one, in order, to the rules
\* of its scheme in the unmerged dictionary that overlap its window; the
\* event of a rule spans the intersection, has the rule's phase and
\* durationWeeks = the rule's growWeeks, and triggerWeeks is 0 for a GROW
\* rule and otherwise the growWeeks of the first GROW rule of the scheme that
\* contains the event's window, 0 if there is none; every event belongs to a
\* recipe.
C24_OneEventPerOverlappingRule ==
  pc = "done" =>
    /\ \A e \in 1..Len(result.events) :
         \E i \in 1..Len(result.recipes) :
           result.recipes[i].id = result.events[e].recipeId
    /\ \A i \in 1..Len(result.recipes) :
         LET recipe == result.recipes[i]
             own == eventsOfRecipe(result, recipe.id)
             over == overlappingRules(dict, recipe)
         IN /\ Len(own) = Len(over)
            /\ \A k \in 1..Len(own) :
                 /\ own[k].startWeek =
                      (IF recipe.startWeek >= over[k].startWeek
                       THEN recipe.startWeek ELSE over[k].startWeek)
                 /\ own[k].endWeek =
                      (IF recipe.endWeek <= over[k].endWeek
                       THEN recipe.endWeek ELSE over[k].endWeek)
                 /\ own[k].durationWeeks = over[k].growWeeks
                 /\ own[k].phase = over[k].phase
                 /\ own[k].triggerWeeks =
                      (IF over[k].phase = "GROW" THEN 0
                       ELSE leadTime(dict[recipe.schemeCode],
                                     own[k].startWeek, own[k].endWeek))

\* A scheme with a GROW rule over the year and a SPACE rule from week 30 on:
\* the recipe of the first weeks has no SPACE event, the recipe from week 30
\* on has one, with the GROW rule's duration as its lead time.
C24_Witness ==
  /\ pc = "done"
  /\ \E i, j \in 1..Len(result.recipes) :
       /\ result.recipes[i].schemeCode = result.recipes[j].schemeCode
       /\ Len(overlappingRules(dict, result.recipes[i]))
            < Len(dict[result.recipes[i].schemeCode])
       /\ \E e \in 1..Len(result.events) :
            /\ result.events[e].recipeId = result.recipes[j].id
            /\ result.events[e].phase = "SPACE"
            /\ result.events[e].triggerWeeks > 0

\* Every rule has a window inside the calendar, first week before last.
windowsInCalendar(rs) ==
  \A j \in 1..Len(rs) :
    1 <= rs[j].startWeek /\ rs[j].startWeek <= rs[j].endWeek
      /\ rs[j].endWeek <= LastWeek

growCovered(rs, w) ==
  \E j \in 1..Len(rs) :
    rs[j].phase = "GROW" /\ rs[j].startWeek <= w /\ w <= rs[j].endWeek

\* C25: for rules with 1 <= startWeek <= endWeek <= 53 the emitted segments
\* are non-empty, in strictly ascending week order and pairwise disjoint, and
\* a week of 1..53 lies in an emitted segment exactly when it lies inside
\* some GROW rule: no GROW-covered week is dropped.
C25_SegmentsPartitionGrowWeeks ==
  (pc = "done" /\ windowsInCalendar(rules)) =>
    /\ \A i \in 1..Len(merged) : merged[i].startWeek <= merged[i].endWeek
    /\ \A i \in 1..(Len(merged) - 1) :
         merged[i].endWeek < merged[i + 1].startWeek
    /\ \A w \in 1..LastWeek :
         growCovered(rules, w) <=>
           \E i \in 1..Len(merged) :
             merged[i].startWeek <= w /\ w <= merged[i].endWeek

\* Two GROW rules that share week 10 only: three segments come out, the
\* middle one being week 10 alone.
C25_Witness ==
  /\ pc = "done"
  /\ windowsInCalendar(rules)
  /\ Len(rules) = 2
  /\ rules[1].phase = "GROW" /\ rules[2].phase = "GROW"
  /\ Len(merged) = 3
  /\ merged[2].startWeek = 10 /\ merged[2].endWeek = 10

\* Every rule of the scheme has its first week no later than its last.
rulesWellFormed(dictionary, code) ==
  \A k \in 1..Len(dictionary[code]) :
    dictionary[code][k].startWeek <= dictionary[code][k].endWeek

\* C26: when every rule of a scheme has startWeek <= endWeek, every event of
\* a recipe of that scheme spans exactly the recipe's window, and every such
\* recipe has an event of phase GROW.
C26_EventsSpanRecipeWindow ==
  pc = "done" =>
    \A i \in 1..Len(result.recipes) :
      LET recipe == result.recipes[i]
          own == eventsOfRecipe(result, recipe.id)
      IN rulesWellFormed(dict, recipe.schemeCode) =>
           /\ \A k \in 1..Len(own) :
                /\ own[k].startWeek = recipe.startWeek
                /\ own[k].endWeek = recipe.endWeek
           /\ \E k \in 1..Len(own) : own[k].phase = "GROW"

\* A recipe over a proper part of the window of a GROW rule of its scheme,
\* cut off by the start of a SPACE rule; its GROW event ends with the recipe.
C26_Witness ==
  /\ pc = "done"
  /\ \E i \in 1..Len(result.recipes) :
       LET recipe == result.recipes[i]
       IN /\ rulesWellFormed(dict, recipe.schemeCode)
          /\ \E k \in 1..Len(dict[recipe.schemeCode]) :
               LET rule == dict[recipe.schemeCode][k]
               IN /\ rule.phase = "GROW"
                  /\ rule.startWeek <= recipe.startWeek
                  /\ recipe.endWeek < rule.endWeek
          /\ \E k \in 1..Len(dict[recipe.schemeCode]) :
               dict[recipe.schemeCode][k].phase = "SPACE"
          /\ \E e \in 1..Len(result.events) :
               /\ result.events[e].recipeId = recipe.id
               /\ result.events[e].phase = "GROW"
               /\ result.events[e].endWeek = recipe.endWeek

----------------------------------------------------------------------------
(* Claims on the preference rows of one location and scheme                *)

recipesOfPair(r, locationCode, schemeCode) ==
  {k \in 1..Len(r.recipes) : /\ r.recipes[k].locationCode = locationCode
                             /\ r.recipes[k].schemeCode = schemeCode}

\* C27: every recipe carries series and color (productionItemNo and
\* variantCode) of the first preference row, in input order, with its
\* location and scheme; a location and scheme named by several rows has one
\* recipe per merged segment, as with a single row, and the only warnings of
\* the form "No rules found ..." are those of the rows of unknown schemes
\* (generateRecipes runs when schemes and scheme lines are present).
C27_FirstPreferenceRowWins ==
  (pc = "done" /\ Len(data.schemes) > 0 /\ Len(data.schemeLines) > 0) =>
    /\ \A k \in 1..Len(result.recipes) :
         /\ \E i \in 1..Len(data.preferences) :
              /\ data.preferences[i].locationCode = result.recipes[k].locationCode
              /\ data.preferences[i].schemeCode = result.recipes[k].schemeCode
         /\ result.recipes[k].series =
              data.preferences[firstPrefOf(data, result.recipes[k])].productionItemNo
         /\ result.recipes[k].color =
              data.preferences[firstPrefOf(data, result.recipes[k])].variantCode
    /\ \A i \in 1..Len(data.preferences) :
         data.preferences[i].schemeCode \in DOMAIN dict =>
           Cardinality(recipesOfPair(result, data.preferences[i].locationCode,
                                     data.preferences[i].schemeCode))
             = Len(mergeGrowAndSpace(dict[data.preferences[i].schemeCode]))
    /\ Cardinality({k \in 1..Len(result.warnings) :
                      result.warnings[k] \in noRulesWarnings(data)})
         = Len(unknownSchemePrefs(data))

\* Two rows of one location and scheme with different items: the scheme has
\* recipes, none of them carries the item of the second row, and there is no
\* warning.
C27_Witness ==
  /\ pc = "done"
  /\ \E i, j \in 1..Len(data.preferences) :
       /\ i < j
       /\ data.preferences[i].locationCode = data.preferences[j].locationCode
       /\ data.preferences[i].schemeCode = data.preferences[j].schemeCode
       /\ data.preferences[i].productionItemNo # data.preferences[j].productionItemNo
       /\ recipesOfPair(result, data.preferences[j].locationCode,
                        data.preferences[j].schemeCode) # {}
       /\ \A k \in 1..Len(result.recipes) :
            result.recipes[k].series # data.preferences[j].productionItemNo
  /\ result.warnings = <<>>

----------------------------------------------------------------------------
(* Claims on the recipe a mix refers to                                    *)

\* The recipes of the result with the id the mix refers to.
recipesOfMix(r, mix) ==
  {k \in 1..Len(r.recipes) : r.recipes[k].id = mix.recipeId}

\* C28 as stated: the recipe a mix refers to has the location of the mix and
\* the production item of the mix row, and its window contains the whole mix
\* segment: r.startWeek <= mix.startWeek <= mix.endWeek <= r.endWeek.
C28_RecipeWindowContainsMix ==
  pc = "done" =>
    \A m \in 1..Len(result.mixes) :
      /\ recipesOfMix(result, result.mixes[m]) # {}
      /\ \A k \in recipesOfMix(result, result.mixes[m]) :
           /\ result.recipes[k].locationCode = result.mixes[m].location
           /\ result.recipes[k].series = data.mixRows[1].productionItem
           /\ result.recipes[k].startWeek <= result.mixes[m].startWeek
           /\ result.mixes[m].startWeek <= result.mixes[m].endWeek
           /\ result.mixes[m].endWeek <= result.recipes[k].endWeek

\* C28 amended: the recipe a mix refers to has the location of the mix and
\* the production item of the mix row, and its window contains the first
\* week of the mix segment: r.startWeek <= mix.startWeek <= r.endWeek, with
\* mix.startWeek <= mix.endWeek.
C28_RecipeWindowContainsMixStart ==
  pc = "done" =>
    \A m \in 1..Len(result.mixes) :
      /\ recipesOfMix(result, result.mixes[m]) # {}
      /\ \A k \in recipesOfMix(result, result.mixes[m]) :
           /\ result.recipes[k].locationCode = result.mixes[m].location
           /\ result.recipes[k].series = data.mixRows[1].productionItem
           /\ result.recipes[k].startWeek <= result.mixes[m].startWeek
           /\ result.mixes[m].startWeek <= result.recipes[k].endWeek
           /\ result.mixes[m].startWeek <= result.mixes[m].endWeek

\* A run of one percentage that starts in the window of one recipe and ends
\* in the window of the next: the mix refers to the first recipe and ends
\* after it.
C28_Witness ==
  /\ pc = "done"
  /\ \E m \in 1..Len(result.mixes) :
       \E k \in recipesOfMix(result, result.mixes[m]) :
         /\ result.recipes[k].startWeek <= result.mixes[m].startWeek
         /\ result.mixes[m].startWeek <= result.recipes[k].endWeek
         /\ result.recipes[k].endWeek < result.mixes[m].endWeek

----------------------------------------------------------------------------
(* Claims on the references between the collections of one result          *)

recipeIds(r) == {r.recipes[k].id : k \in 1..Len(r.recipes)}

\* The catalogs of the result with the given id.
catalogsWithId(r, id) == {c \in 1..Len(r.catalogs) : r.catalogs[c].id = id}

\* C29: every event, spec and mix refers to the id of a recipe of the same
\* result; a recipe with a catalogId refers to a catalog of the result with
\* the recipe's genus; a mix with a catalogId other than 0 refers to a
\* catalog of the result whose genus is, ignoring case, the genus of the
\* recipe of the mix.
C29_ReferentialIntegrity ==
  pc = "done" =>
    /\ \A e \in 1..Len(result.events) :
         result.events[e].recipeId \in recipeIds(result)
    /\ \A s \in 1..Len(result.specs) :
         result.specs[s].recipeId \in recipeIds(result)
    /\ \A m \in 1..Len(result.mixes) :
         result.mixes[m].recipeId \in recipeIds(result)
    /\ \A k \in 1..Len(result.recipes) :
         result.recipes[k].catalogId # Undefined =>
           /\ catalogsWithId(result, result.recipes[k].catalogId[1]) # {}
           /\ \A c \in catalogsWithId(result, result.recipes[k].catalogId[1]) :
                result.catalogs[c].genus = result.recipes[k].genus
    /\ \A m \in 1..Len(result.mixes) :
         result.mixes[m].catalogId # 0 =>
           /\ catalogsWithId(result, result.mixes[m].catalogId) # {}
           /\ \A c \in catalogsWithId(result, result.mixes[m].catalogId) :
                \A k \in recipesOfMix(result, result.mixes[m]) :
                  toLowerCase(result.catalogs[c].genus)
                    = toLowerCase(result.recipes[k].genus)

\* A result with events and specs in which a mix refers to a catalog whose
\* genus differs from the genus of its recipe by case only.
C29_Witness ==
  /\ pc = "done"
  /\ Len(result.events) >= 1
  /\ Len(result.specs) >= 1
  /\ \E m \in 1..Len(result.mixes) :
       \E c \in catalogsWithId(result, result.mixes[m].catalogId) :
         \E k \in recipesOfMix(result, result.mixes[m]) :
           /\ result.recipes[k].catalogId # Undefined
           /\ result.catalogs[c].genus # result.recipes[k].genus

----------------------------------------------------------------------------
(* Claims on the pipeline hook                                             *)

\* C30: whenever the hook holds a transformResult, it holds a parsedData and
\* the result is the one transform gives for that parsedData: no runTransform
\* that was suspended while the files changed writes its result afterwards.
C30_ResultBelongsToParsedData ==
  state.transformResult # Undefined =>
    /\ state.parsedData # Undefined
    /\ state.transformResult = Some(transform(state.parsedData[1]))

====
